---- MODULE Spec2Model ----
(***************************************************************************)
(* Model of the facility search route of cereflow-backend                  *)
(* (src/unnamed/part_000, the search router that starts at line 575):      *)
(* POST /search validates the request, geocodes the location, fans the     *)
(* query list out to the place-search provider, deduplicates, filters,     *)
(* attaches distances, ranks, applies the radius cutoff and enriches the   *)
(* ranked list with the generative service or the rule-based fallback.     *)
(*                                                                         *)
(* One action is one turn of the event loop: the code between two awaits.  *)
(* Strings are TLA+ strings; includes() and toLowerCase() are computed     *)
(* character by character.  Distances are integers in tenths of a mile     *)
(* (the code rounds to one decimal).                                       *)
(***************************************************************************)
EXTENDS Integers, Sequences, FiniteSets, TLC

\* JavaScript's null / undefined.
Null == "<null>"

(***************************************************************************)
(* Bounds of the model.                                                    *)
(***************************************************************************)
\* How many place-search queries of one request return a non-empty list.
MaxOkQueries == 2
\* Longest collected list the ranking specification starts from.
MaxCandidates == 2
\* Longest facility list handed to the sort route.
MaxSortLen == 4
MaxTicks == 3
MaxRanked == 17
MaxExtraEntries == 2
MaxOrdered == 3
MaxNeedLen == 3
MaxCollected == 3

(***************************************************************************)
(* Optional values: <<>> is null / undefined, <<v>> is the value v.        *)
(***************************************************************************)
None == <<>>
Some(v) == <<v>>
IsSome(o) == o # <<>>
Val(o) == o[1]

(***************************************************************************)
(* The places the place-search provider knows in this model.  A location   *)
(* is a latitude in tenths of a mile along the meridian of the user.       *)
(***************************************************************************)
Place(name, address, types, loc) ==
  [ displayName |-> name, formattedAddress |-> address, types |-> types,
    location |-> loc, internationalPhoneNumber |-> Null, websiteUri |-> Null,
    rating |-> Null ]

At(lat) == Some([latitude |-> lat, longitude |-> 0])

RehabHospital == Place("Nashville Rehabilitation Hospital", "1 Rehab Way", <<"hospital">>, At(50))
DentalHospital == Place("Smile Dental Hospital", "2 Tooth St", <<"dentist">>, At(150))
VetClinic == Place("Nashville Veterinary Clinic", "3 Paw Rd", <<"veterinary_care">>, At(30))
VetHospital == Place("Belle Meade Veterinary Hospital", "5 Tail Ln", <<"hospital">>, At(60))
EyeHospital == Place("Nepal Eye Hospital", "4 Iris Ave", <<"hospital">>, At(100))
EyeHospitalUpper == Place("NEPAL EYE HOSPITAL", "4 Iris Ave", <<"hospital">>, At(100))
StrokeHospital == Place("Metro Stroke Hospital", "6 Main St", <<"hospital">>, At(400))
SpeechClinic == Place("Speech Clinic", "7 Oak St", <<"health">>, None)
FarHospital == Place("Far Hospital", "8 Hill Rd", <<"hospital">>, At(700))
StrokeCenter == Place("Vanderbilt Stroke Center", "9 Medical Dr", <<"hospital">>, At(20))
CentralHospital == Place("Central Hospital", "10 Main St", <<"hospital">>, At(40))
EmergencyDepartment == Place("Emergency Department", "11 Main St", <<"hospital">>, At(60))
SkinHospital == Place("Skin Care Hospital", "12 Derm Ct", <<"hospital">>, At(80))
EntHospital == Place("Nashville ENT Hospital", "13 Ear Ln", <<"hospital">>, At(90))
MercyHospital == Place("Mercy Hospital", "14 Grace St", <<"hospital">>, None)
SummitHospital == Place("Summit Hospital", "15 Ridge Rd", <<"hospital">>, At(10))
UrgentHospital == Place("Urgent Care Hospital", "16 Quick St", <<"hospital">>, At(70))
MercyWestHospital == Place("Mercy Hospital-West", "End Ave", <<"hospital">>, At(20))
MercyHospitalWestEnd == Place("Mercy Hospital", "West-End Ave", <<"hospital">>, At(30))
StPetersHospital == Place("St. Peter's Hospital", "17 Abbey Rd", <<"hospital">>, At(40))

Universe ==
  { RehabHospital, DentalHospital, VetClinic, VetHospital, EyeHospital,
    EyeHospitalUpper, StrokeHospital, SpeechClinic, FarHospital,
    MercyHospitalWestEnd, MercyWestHospital }

(***************************************************************************)
(* String helpers: String.prototype.includes and toLowerCase.              *)
(***************************************************************************)
UpperChars == "ABCDEFGHIJKLMNOPQRSTUVWXYZ"
LowerChars == "abcdefghijklmnopqrstuvwxyz"

CharAt(s, i) == SubSeq(s, i, i)

LowerChar(c) ==
  IF \E i \in 1..26 : CharAt(UpperChars, i) = c
  THEN CharAt(LowerChars, CHOOSE i \in 1..26 : CharAt(UpperChars, i) = c)
  ELSE c

RECURSIVE LowerFrom(_, _)
LowerFrom(s, i) ==
  IF i > Len(s) THEN "" ELSE LowerChar(CharAt(s, i)) \o LowerFrom(s, i + 1)

\* String.prototype.toLowerCase, character by character.
lowerOf(s) == LowerFrom(s, 1)

\* String.prototype.includes: sub occurs at some position of s.
occursIn(s, sub) ==
  \E i \in 1..(Len(s) - Len(sub) + 1) : SubSeq(s, i, i + Len(sub) - 1) = sub

(***************************************************************************)
(* toLowerCase and includes are computed once for the strings of the       *)
(* model's facilities and the keywords of the code, and looked up; any     *)
(* other string is computed on the spot by lowerOf and occursIn.           *)
(***************************************************************************)
CachedStrings ==
  { "Nashville Rehabilitation Hospital", "Smile Dental Hospital",
    "Nashville Veterinary Clinic", "Belle Meade Veterinary Hospital",
    "Nepal Eye Hospital", "NEPAL EYE HOSPITAL", "Metro Stroke Hospital",
    "Speech Clinic", "Far Hospital", "hospital", "dentist", "veterinary_care",
    "health", "Vanderbilt Stroke Center", "Central Hospital", "Emergency Department",
    "Skin Care Hospital", "Nashville ENT Hospital", "Mercy Hospital",
    "Mercy Hospital-West", "St. Peter's Hospital",
    "Summit Hospital", "Urgent Care Hospital",
    "General Hospital A", "General Hospital B", "General Hospital C", "General Hospital D",
    "General Hospital E", "General Hospital F", "General Hospital G", "General Hospital H",
    "General Hospital I", "General Hospital J", "General Hospital K", "General Hospital L",
    "General Hospital M", "General Hospital N", "General Hospital O", "General Hospital P",
    "General Hospital Q", "General Hospital R", "General Hospital S" }

Keywords ==
  { "pet", "veterinary", "animal", "vet ", "hospital", "emergency", "medical center",
    "trauma", "stroke center", "urgent care", "rehabilitation", "rehab", "recovery",
    "therapy", "physical therapy", "speech", "occupational", "physiotherapist",
    "language", "communication", "physiotherapy", "physical rehab",
    "occupational therapy", "support", "community", "group", "center", "association",
    "community_center", "stroke", "urgent", "eye", "dental", "skin", "ent", "dermat",
    "ophthalm", "clinic", "heart", "neuro" }

LowerMemo == [ s \in CachedStrings |-> lowerOf(s) ]

\* String.prototype.toLowerCase
toLowerCase(s) == IF s \in CachedStrings THEN LowerMemo[s] ELSE lowerOf(s)

IncludesMemo ==
  [ s \in { lowerOf(t) : t \in CachedStrings } |-> { k \in Keywords : occursIn(s, k) } ]

\* String.prototype.includes
includes(s, sub) ==
  IF s \in DOMAIN IncludesMemo /\ sub \in Keywords THEN sub \in IncludesMemo[s]
  ELSE occursIn(s, sub)

\* name.includes(k1) || name.includes(k2) || ... for the keywords of a set
includesAny(s, subs) == \E sub \in subs : includes(s, sub)

\* Array.prototype.includes on a sequence.
arrIncludes(arr, x) == \E i \in 1..Len(arr) : arr[i] = x

RECURSIVE joinFrom(_, _, _)
joinFrom(arr, sep, i) ==
  IF i > Len(arr) THEN ""
  ELSE IF i = Len(arr) THEN arr[i]
  ELSE arr[i] \o sep \o joinFrom(arr, sep, i + 1)

\* Array.prototype.join
join(arr, sep) == joinFrom(arr, sep, 1)

(***************************************************************************)
(* Distance Engine.  Coordinates lie on one meridian and a unit of         *)
(* latitude is the arc of a tenth of a mile, so the great-circle distance  *)
(* R * c of calculateDistance is |lat2 - lat1| tenths of a mile and        *)
(* 6371/3959 times that in kilometres, rounded to one decimal.             *)
(***************************************************************************)
EarthRadiusMiles == 3959
EarthRadiusKm == 6371

Abs(x) == IF x < 0 THEN -x ELSE x

calculateDistance(lat1, lon1, lat2, lon2, unit) ==
  LET arc == Abs(lat2 - lat1) + Abs(lon2 - lon1)
  IN  IF unit = "miles"
      THEN arc
      ELSE (2 * arc * EarthRadiusKm + EarthRadiusMiles) \div (2 * EarthRadiusMiles)

\* getLocalLanguage: the country -> language table, "en" when unmapped.
getLocalLanguage(countryCode) ==
  CASE countryCode \in {"US", "CA", "GB", "AU", "NZ"} -> "en"
    [] countryCode = "NP" -> "ne"
    [] countryCode \in {"MX", "ES", "AR", "CO", "PE"} -> "es"
    [] countryCode \in {"FR", "BE", "CH"} -> "fr"
    [] countryCode \in {"DE", "AT"} -> "de"
    [] countryCode = "IT" -> "it"
    [] countryCode \in {"BR", "PT"} -> "pt"
    [] countryCode \in {"CN", "TW"} -> "zh"
    [] countryCode = "JP" -> "ja"
    [] countryCode = "KR" -> "ko"
    [] countryCode = "IN" -> "hi"
    [] countryCode = "RU" -> "ru"
    [] OTHER -> "en"

(***************************************************************************)
(* needTypes as the route receives it from the JSON body: missing, an      *)
(* array of strings, or (the route does not check) a bare string.          *)
(***************************************************************************)
NeedArray(items) == [kind |-> "array", items |-> items, text |-> ""]
NeedString(text) == [kind |-> "string", items |-> <<>>, text |-> text]
NeedMissing == [kind |-> "missing", items |-> <<>>, text |-> ""]

\* needTypes.length
needLength(needTypes) ==
  IF needTypes.kind = "array" THEN Len(needTypes.items) ELSE Len(needTypes.text)

\* needTypes.includes(t): membership for an array, substring for a string.
needIncludes(needTypes, t) ==
  IF needTypes.kind = "array" THEN arrIncludes(needTypes.items, t)
  ELSE includes(needTypes.text, t)

\* needTypes.join(', ') throws a TypeError unless needTypes is an array.
needJoinThrows(needTypes) == needTypes.kind # "array"

(***************************************************************************)
(* Relevance Filter.                                                       *)
(***************************************************************************)
\* facility.displayName?.text?.toLowerCase() || ''
lowerName(facility) == toLowerCase(facility.displayName)

\* (facility.types || []).join(' ').toLowerCase()
lowerTypes(facility) == toLowerCase(join(facility.types, " "))

\* An exclusion that trusts the place types alone and never reads the name.
isVeterinaryByType(name, typesStr) == includes(typesStr, "veterinary")

\* The veterinary / pet exclusion that precedes every need-type rule.
isVeterinary(name, typesStr) ==
  \/ includesAny(name, {"pet", "veterinary", "animal", "vet "})
  \/ includes(typesStr, "veterinary")

isEmergencyRelevant(name, typesStr) ==
  \/ includesAny(name, {"hospital", "emergency", "medical center", "trauma",
                        "stroke center", "urgent care"})
  \/ includesAny(typesStr, {"hospital", "emergency"})

isRehabRelevant(name, typesStr) ==
  \/ includesAny(name, {"rehabilitation", "rehab", "recovery", "therapy",
                        "physical therapy", "speech", "occupational"})
  \/ includesAny(typesStr, {"physiotherapist", "rehabilitation"})

isSpeechRelevant(name, typesStr) ==
  \/ includesAny(name, {"speech", "language", "communication"})
  \/ includes(typesStr, "speech")

isPhysicalRelevant(name, typesStr) ==
  \/ includesAny(name, {"physical therapy", "physiotherapy", "physical rehab"})
  \/ includes(typesStr, "physiotherapist")

isOccupationalRelevant(name, typesStr) ==
  \/ includesAny(name, {"occupational", "occupational therapy"})
  \/ includes(typesStr, "occupational")

isSupportRelevant(name, typesStr) ==
  \/ includesAny(name, {"support", "community", "group", "center", "association"})
  \/ includes(typesStr, "community_center")

isMajorMedical(name, typesStr) ==
  \/ includesAny(name, {"hospital", "medical center"})
  \/ includes(typesStr, "hospital")

\* A filter without the major-medical safety net.
keepFacilityNoSafetyNet(facility, needTypes) ==
  LET name == lowerName(facility)
      typesStr == lowerTypes(facility)
  IN  IF isVeterinary(name, typesStr) THEN FALSE
      ELSE \/ needIncludes(needTypes, "emergency") /\ isEmergencyRelevant(name, typesStr)
           \/ needIncludes(needTypes, "rehabilitation") /\ isRehabRelevant(name, typesStr)
           \/ needIncludes(needTypes, "speech-therapy") /\ isSpeechRelevant(name, typesStr)
           \/ needIncludes(needTypes, "physical-therapy") /\ isPhysicalRelevant(name, typesStr)
           \/ needIncludes(needTypes, "occupational-therapy")
                /\ isOccupationalRelevant(name, typesStr)
           \/ needIncludes(needTypes, "support-groups") /\ isSupportRelevant(name, typesStr)

\* The callback of facilities.filter(...): TRUE when the facility is kept.
keepFacility(facility, needTypes) ==
  LET name == lowerName(facility)
      typesStr == lowerTypes(facility)
  IN  IF isVeterinary(name, typesStr) THEN FALSE
      ELSE \/ needIncludes(needTypes, "emergency") /\ isEmergencyRelevant(name, typesStr)
           \/ needIncludes(needTypes, "rehabilitation") /\ isRehabRelevant(name, typesStr)
           \/ needIncludes(needTypes, "speech-therapy") /\ isSpeechRelevant(name, typesStr)
           \/ needIncludes(needTypes, "physical-therapy") /\ isPhysicalRelevant(name, typesStr)
           \/ needIncludes(needTypes, "occupational-therapy")
                /\ isOccupationalRelevant(name, typesStr)
           \/ needIncludes(needTypes, "support-groups") /\ isSupportRelevant(name, typesStr)
           \/ isMajorMedical(name, typesStr)

\* Array.prototype.filter with keepFacility, order kept.
filterFacilitiesByServiceType(facilities, needTypes) ==
  SelectSeq(facilities, LAMBDA f : keepFacility(f, needTypes))

(***************************************************************************)
(* Facility Fetcher: the query list and the deduplication.                 *)
(***************************************************************************)
\* The search radius in miles: 31, or 50 when support-groups is requested.
DefaultRadiusMiles == 31
SupportRadiusMiles == 50

searchRadius(needTypes) ==
  IF needIncludes(needTypes, "support-groups") THEN SupportRadiusMiles
  ELSE DefaultRadiusMiles

\* A query list without the two general searches at its end.
searchQueriesNoGeneral(location, needTypes) ==
  (IF needIncludes(needTypes, "emergency")
   THEN << "stroke center near " \o location,
           "hospital emergency room near " \o location,
           "trauma center near " \o location,
           "comprehensive stroke center near " \o location >>
   ELSE <<>>)
  \o
  (IF needIncludes(needTypes, "rehabilitation")
   THEN << "stroke rehabilitation center near " \o location,
           "neurological rehabilitation hospital near " \o location,
           "inpatient rehabilitation facility near " \o location,
           "stroke recovery center near " \o location >>
   ELSE <<>>)
  \o
  (IF needIncludes(needTypes, "speech-therapy")
   THEN << "speech therapy clinic near " \o location,
           "speech language pathologist near " \o location >>
   ELSE <<>>)
  \o
  (IF needIncludes(needTypes, "physical-therapy")
   THEN << "physical therapy clinic near " \o location,
           "neurological physical therapy near " \o location >>
   ELSE <<>>)
  \o
  (IF needIncludes(needTypes, "occupational-therapy")
   THEN << "occupational therapy near " \o location,
           "occupational therapist near " \o location >>
   ELSE <<>>)
  \o
  (IF needIncludes(needTypes, "support-groups")
   THEN << "stroke support group near " \o location,
           "stroke survivor group near " \o location,
           "brain injury support center near " \o location,
           "community health center near " \o location >>
   ELSE <<>>)

\* searchQueries, in the order the code pushes them.
searchQueries(location, needTypes) ==
  (IF needIncludes(needTypes, "emergency")
   THEN << "stroke center near " \o location,
           "hospital emergency room near " \o location,
           "trauma center near " \o location,
           "comprehensive stroke center near " \o location >>
   ELSE <<>>)
  \o
  (IF needIncludes(needTypes, "rehabilitation")
   THEN << "stroke rehabilitation center near " \o location,
           "neurological rehabilitation hospital near " \o location,
           "inpatient rehabilitation facility near " \o location,
           "stroke recovery center near " \o location >>
   ELSE <<>>)
  \o
  (IF needIncludes(needTypes, "speech-therapy")
   THEN << "speech therapy clinic near " \o location,
           "speech language pathologist near " \o location >>
   ELSE <<>>)
  \o
  (IF needIncludes(needTypes, "physical-therapy")
   THEN << "physical therapy clinic near " \o location,
           "neurological physical therapy near " \o location >>
   ELSE <<>>)
  \o
  (IF needIncludes(needTypes, "occupational-therapy")
   THEN << "occupational therapy near " \o location,
           "occupational therapist near " \o location >>
   ELSE <<>>)
  \o
  (IF needIncludes(needTypes, "support-groups")
   THEN << "stroke support group near " \o location,
           "stroke survivor group near " \o location,
           "brain injury support center near " \o location,
           "community health center near " \o location >>
   ELSE <<>>)
  \o
  << "hospital near " \o location, "medical center near " \o location >>

\* placeId: `${facility.displayName?.text}-${facility.formattedAddress}`
placeId(facility) == facility.displayName \o "-" \o facility.formattedAddress

\* The seenPlaces loop: the first facility of every placeId, in order.
RECURSIVE uniqueFrom(_, _, _)
uniqueFrom(all, i, seenPlaces) ==
  IF i > Len(all) THEN <<>>
  ELSE IF placeId(all[i]) \in seenPlaces
       THEN uniqueFrom(all, i + 1, seenPlaces)
       ELSE <<all[i]>> \o uniqueFrom(all, i + 1, seenPlaces \cup {placeId(all[i])})

\* A collector handed on as it is, with no seenPlaces test.
uniqueFacilitiesKeepAll(all) == all

uniqueFacilities(all) == uniqueFrom(all, 1, {})

(***************************************************************************)
(* Distance and directions attached to every filtered facility.            *)
(***************************************************************************)
\* encodeURIComponent on the characters that occur in the model's strings.
encodeChar(c) ==
  CASE c = " " -> "%20"
    [] c = "," -> "%2C"
    [] OTHER -> c

RECURSIVE encodeFrom(_, _)
encodeFrom(s, i) ==
  IF i > Len(s) THEN "" ELSE encodeChar(CharAt(s, i)) \o encodeFrom(s, i + 1)

encodeURIComponent(s) == encodeFrom(s, 1)

\* Coordinates printed into a URL: the model writes the latitude unit count.
coordText(n) == ToString(n)

generateDirectionsUrls(facilityAddress, facilityName, userLocation, facilityCoords) ==
  LET origin == encodeURIComponent(userLocation)
      destination == encodeURIComponent(facilityAddress)
      ll == IF IsSome(facilityCoords)
            THEN coordText(Val(facilityCoords).latitude) \o ","
                   \o coordText(Val(facilityCoords).longitude)
            ELSE ""
  IN  [ google |->
          [ driving |-> "https://www.google.com/maps/dir/" \o origin \o "/" \o destination,
            general |-> "https://www.google.com/maps/search/" \o destination ],
        apple |->
          IF IsSome(facilityCoords)
          THEN [ driving |-> "https://maps.apple.com/?daddr=" \o ll \o "&dirflg=d",
                 general |-> "https://maps.apple.com/?ll=" \o ll \o "&q="
                               \o encodeURIComponent(facilityName) ]
          ELSE [ driving |-> "https://maps.apple.com/?daddr=" \o destination \o "&dirflg=d",
                 general |-> "https://maps.apple.com/?q=" \o destination ] ]

\* The callback of filteredFacilities.map(...): { ...place, distance, directions }.
withDetails(place, location, userCoords) ==
  LET facilityCoords == place.location
      distance ==
        IF IsSome(userCoords) /\ IsSome(facilityCoords)
        THEN Some([ km |-> calculateDistance(Val(userCoords).lat, Val(userCoords).lng,
                             Val(facilityCoords).latitude, Val(facilityCoords).longitude, "km"),
                    miles |-> calculateDistance(Val(userCoords).lat, Val(userCoords).lng,
                             Val(facilityCoords).latitude, Val(facilityCoords).longitude,
                             "miles") ])
        ELSE None
      directions ==
        IF place.formattedAddress # ""
        THEN Some(generateDirectionsUrls(place.formattedAddress,
                                         IF place.displayName # "" THEN place.displayName
                                         ELSE "Medical Facility",
                                         location, facilityCoords))
        ELSE None
  IN  [ displayName |-> place.displayName,
        formattedAddress |-> place.formattedAddress,
        types |-> place.types,
        location |-> place.location,
        internationalPhoneNumber |-> place.internationalPhoneNumber,
        websiteUri |-> place.websiteUri,
        rating |-> place.rating,
        distance |-> distance,
        directions |-> directions ]

facilitiesWithDetails(filtered, location, userCoords) ==
  [ i \in 1..Len(filtered) |-> withDetails(filtered[i], location, userCoords) ]

(***************************************************************************)
(* Scorer & Ranker.                                                        *)
(***************************************************************************)
\* The emergency priority score of the sort comparator.
emergencyScore(name) ==
  (IF includes(name, "stroke") THEN 10 ELSE 0)
  + (IF /\ (includes(name, "hospital") \/ includes(name, "medical center"))
        /\ ~includes(name, "urgent")
        /\ ~includes(name, "eye")
        /\ ~includes(name, "dental")
        /\ ~includes(name, "skin")
        /\ ~includes(name, "ent")
     THEN 8 ELSE 0)
  + (IF includes(name, "emergency") /\ ~includes(name, "urgent") THEN 6 ELSE 0)
  + (IF includes(name, "trauma") THEN 7 ELSE 0)
  + (IF includes(name, "urgent") THEN 3 ELSE 0)

\* if (a.distance && b.distance) return a.distance.miles - b.distance.miles; return 0
compareDistance(a, b) ==
  IF IsSome(a.distance) /\ IsSome(b.distance)
  THEN Val(a.distance).miles - Val(b.distance).miles
  ELSE 0

\* The comparator of facilitiesWithDetails.sort(...) in getRealFacilities.
compareFacilities(a, b, needTypes) ==
  LET aScore == emergencyScore(lowerName(a))
      bScore == emergencyScore(lowerName(b))
  IN  IF needIncludes(needTypes, "emergency") /\ aScore # bScore
      THEN bScore - aScore
      ELSE compareDistance(a, b)

(***************************************************************************)
(* Array.prototype.sort as the engine runs it on an array shorter than 64  *)
(* elements: the leading run is counted (and reversed when descending),    *)
(* the rest is inserted by binary insertion.  comparefn(how, x, y) is the  *)
(* comparator the caller passed: how.by names it, how.needTypes is the     *)
(* needTypes its closure captured.                                         *)
(***************************************************************************)
\* relevanceScore[x.medical_relevance] || 1 of the sort route
relevanceScore(relevance) ==
  CASE relevance = "High" -> 3
    [] relevance = "Medium" -> 2
    [] OTHER -> 1

\* The comparator of sortBy === 'relevance' in the sort route.
compareRelevance(a, b) ==
  LET aScore == relevanceScore(a.medical_relevance)
      bScore == relevanceScore(b.medical_relevance)
  IN  IF aScore # bScore THEN bScore - aScore ELSE compareDistance(a, b)

comparefn(how, x, y) ==
  IF how.by = "facilities" THEN compareFacilities(x, y, how.needTypes)
  ELSE IF how.by = "relevance" THEN compareRelevance(x, y)
  ELSE compareDistance(x, y)

Reverse(s) == [ i \in 1..Len(s) |-> s[Len(s) + 1 - i] ]

\* The length of the run that starts at a[1]; idx is the next index to look at.
RECURSIVE runLengthFrom(_, _, _, _)
runLengthFrom(a, idx, isDescending, how) ==
  IF idx > Len(a) THEN Len(a)
  ELSE LET order == comparefn(how, a[idx], a[idx - 1])
       IN  IF (isDescending /\ order >= 0) \/ (~isDescending /\ order < 0)
           THEN idx - 1
           ELSE runLengthFrom(a, idx + 1, isDescending, how)

\* The insertion point of pivot in a[left+1 .. right] (0-based left, right).
RECURSIVE insertionPoint(_, _, _, _, _)
insertionPoint(a, pivot, left, right, how) ==
  IF left >= right THEN left
  ELSE LET mid == left + ((right - left) \div 2)
       IN  IF comparefn(how, pivot, a[mid + 1]) < 0
           THEN insertionPoint(a, pivot, left, mid, how)
           ELSE insertionPoint(a, pivot, mid + 1, right, how)

\* Binary insertion of a[start+1 ..] into the sorted prefix a[1 .. start].
RECURSIVE binaryInsertionSort(_, _, _)
binaryInsertionSort(a, start, how) ==
  IF start >= Len(a) THEN a
  ELSE LET pivot == a[start + 1]
           left == insertionPoint(a, pivot, 0, start, how)
           moved == SubSeq(a, 1, left) \o <<pivot>> \o SubSeq(a, left + 1, start)
                      \o SubSeq(a, start + 2, Len(a))
       IN  binaryInsertionSort(moved, start + 1, how)

arraySort(a, how) ==
  IF Len(a) < 2 THEN a
  ELSE LET isDescending == comparefn(how, a[2], a[1]) < 0
           runLength == runLengthFrom(a, 3, isDescending, how)
           made == IF isDescending
                   THEN Reverse(SubSeq(a, 1, runLength)) \o SubSeq(a, runLength + 1, Len(a))
                   ELSE a
       IN  binaryInsertionSort(made, runLength, how)

sortedFacilities(withDistance, needTypes) ==
  arraySort(withDistance, [by |-> "facilities", needTypes |-> needTypes])

\* A cutoff that keeps a facility only when its distance is known and in range.
withinRadiusKnownOnly(facility, needTypes) ==
  /\ IsSome(facility.distance)
  /\ Val(facility.distance).miles <= 10 * searchRadius(needTypes)

\* The radius cutoff: a facility with a distance in miles that is not 0 is kept
\* only within maxDistance; any other facility is kept.
withinRadius(facility, needTypes) ==
  IF IsSome(facility.distance) /\ Val(facility.distance).miles # 0
  THEN Val(facility.distance).miles <= 10 * searchRadius(needTypes)
  ELSE TRUE

finalResults(sorted, needTypes) ==
  SelectSeq(sorted, LAMBDA f : withinRadius(f, needTypes))

\* getRealFacilities from the end of the query loop to its return value; the
\* TypeError of needTypes.join in the filter is caught and gives [].
rankCollected(allFacilities, location, needTypes, userCoords) ==
  IF needJoinThrows(needTypes) THEN <<>>
  ELSE finalResults(
         sortedFacilities(
           facilitiesWithDetails(
             filterFacilitiesByServiceType(uniqueFacilities(allFacilities), needTypes),
             location, userCoords),
           needTypes),
         needTypes)

(***************************************************************************)
(* Enrichment Layer.                                                       *)
(***************************************************************************)
maxFacilitiesForAI == 15

\* x || fallback for a string that may be missing.
orElse(x, fallback) == IF x = Null \/ x = "" THEN fallback ELSE x

\* facilitiesForAI = realFacilities.slice(0, maxFacilitiesForAI)
facilitiesForAI(realFacilities) ==
  SubSeq(realFacilities, 1,
         IF Len(realFacilities) < maxFacilitiesForAI THEN Len(realFacilities)
         ELSE maxFacilitiesForAI)

\* aiAnalysis after the try/catch: None when the call threw or JSON.parse threw,
\* otherwise the parsed object.
aiAnalysisOf(outcome) ==
  IF outcome.kind = "json" THEN Some([facilities |-> outcome.facilities,
                                      patterns |-> outcome.patterns])
  ELSE None

getFacilityType(facility) ==
  LET name == lowerName(facility)
      typesStr == lowerTypes(facility)
  IN  IF includes(name, "hospital") \/ includes(typesStr, "hospital") THEN "hospital"
      ELSE IF includes(name, "urgent care") \/ includes(name, "urgent") THEN "urgent_care"
      ELSE IF includes(name, "clinic") \/ includes(typesStr, "clinic") THEN "clinic"
      ELSE IF /\ includes(name, "center")
              /\ (includes(name, "stroke") \/ includes(name, "heart")
                    \/ includes(name, "neuro"))
           THEN "specialty_center"
      ELSE "other"

\* An insight object; Null marks a key the object does not have.
Insight(relevance, support, note, match, specialty, ftype) ==
  [ medical_relevance |-> relevance, language_support |-> support,
    language_note |-> note, service_match |-> match,
    specialty_note |-> specialty, facility_type |-> ftype, name |-> Null ]

overrideInsight(specialtyNote) ==
  Insight("Low", "Unknown", "Language support not assessed", "Poor",
          specialtyNote, "specialty_hospital")

isTherapyRequest(needTypes) ==
  \/ needIncludes(needTypes, "rehabilitation")
  \/ needIncludes(needTypes, "speech-therapy")
  \/ needIncludes(needTypes, "physical-therapy")
  \/ needIncludes(needTypes, "occupational-therapy")

\* An override that knows the emergency need type only.
serviceOverrideEmergencyOnly(name, needTypes) ==
  IF /\ needIncludes(needTypes, "emergency")
     /\ includesAny(name, {"eye", "dental", "skin", "ent", "dermat", "ophthalm"})
  THEN Some(overrideInsight("Specialty hospital - not equipped for stroke emergencies"))
  ELSE None

\* The service-specific manual override: Some(insight) when one triggers.
serviceOverride(name, needTypes) ==
  IF /\ needIncludes(needTypes, "emergency")
     /\ \/ includes(name, "eye") \/ includes(name, "dental") \/ includes(name, "skin")
        \/ includes(name, "ent") \/ includes(name, "dermat") \/ includes(name, "ophthalm")
  THEN Some(overrideInsight("Specialty hospital - not equipped for stroke emergencies"))
  ELSE IF /\ isTherapyRequest(needTypes)
          /\ (includes(name, "eye") \/ includes(name, "dental"))
  THEN Some(overrideInsight("Specialty hospital - not relevant for stroke rehabilitation"))
  ELSE IF /\ needIncludes(needTypes, "support-groups")
          /\ (includes(name, "eye") \/ includes(name, "dental") \/ includes(name, "skin"))
  THEN Some(overrideInsight("Specialty hospital - not relevant for stroke support services"))
  ELSE None

\* The language fields after "Apply AI patterns if available".
patternLanguage(facilityType, aiAnalysis) ==
  LET patterns == IF IsSome(aiAnalysis) THEN Val(aiAnalysis).patterns ELSE None
      p == Val(patterns)
  IN  [ support |->
          IF ~IsSome(patterns) THEN "Unknown"
          ELSE IF facilityType = "hospital" /\ orElse(p.hospital_language_support, "") # ""
               THEN p.hospital_language_support
          ELSE IF facilityType = "urgent_care"
                    /\ orElse(p.urgent_care_language_support, "") # ""
               THEN p.urgent_care_language_support
          ELSE IF facilityType = "clinic" /\ orElse(p.clinic_language_support, "") # ""
               THEN p.clinic_language_support
          ELSE "Unknown",
        note |->
          IF IsSome(patterns) /\ orElse(p.general_language_note, "") # ""
          THEN p.general_language_note
          ELSE "Language support not assessed" ]

\* medical_relevance, specialty_note and service_match after the emergency rules.
emergencyRule(name, facilityType, needTypes, before) ==
  IF ~needIncludes(needTypes, "emergency") THEN before
  ELSE IF includes(name, "stroke") \/ includes(name, "trauma")
       THEN <<"High", "Specialized for stroke/trauma care", "Excellent">>
  ELSE IF /\ facilityType = "hospital"
          /\ ~includes(name, "eye") /\ ~includes(name, "dental") /\ ~includes(name, "skin")
       THEN <<"High", "Hospital with emergency department", "Excellent">>
  ELSE IF facilityType = "urgent_care"
       THEN <<"Medium", "Urgent care facility, not specialized for stroke emergencies",
              "Fair">>
  ELSE before

\* ... and after the rehabilitation and therapy rules, applied in order.
therapyRule(name, facilityType, needTypes, before) ==
  IF ~isTherapyRequest(needTypes) THEN before
  ELSE
    LET r1 == IF includes(name, "speech") /\ needIncludes(needTypes, "speech-therapy")
              THEN <<"High", "Specialized speech therapy services", "Excellent">>
              ELSE before
        r2 == IF /\ (includes(name, "physical therapy") \/ includes(name, "physiotherapy"))
                 /\ needIncludes(needTypes, "physical-therapy")
              THEN <<"High", "Specialized physical therapy services", "Excellent">>
              ELSE r1
        r3 == IF includes(name, "occupational")
                   /\ needIncludes(needTypes, "occupational-therapy")
              THEN <<"High", "Specialized occupational therapy services", "Excellent">>
              ELSE r2
        r4 == IF /\ (includes(name, "rehabilitation") \/ includes(name, "rehab"))
                 /\ needIncludes(needTypes, "rehabilitation")
              THEN <<"High", "Specialized rehabilitation services", "Excellent">>
              ELSE r3
    IN  IF /\ facilityType = "hospital"
           /\ ~includes(name, "eye") /\ ~includes(name, "dental")
        THEN <<"High", "Hospital with rehabilitation services", "Good">>
        ELSE r4

\* The rule-based insights: defaults, AI patterns, need-type rules, language default.
ruleInsights(facility, needTypes, aiAnalysis, languageContext) ==
  LET name == lowerName(facility)
      facilityType == getFacilityType(facility)
      lang == patternLanguage(facilityType, aiAnalysis)
      rated == therapyRule(name, facilityType, needTypes,
                 emergencyRule(name, facilityType, needTypes,
                               <<"Medium", "Medical facility", "Good">>))
      english == lang.support = "Unknown" /\ languageContext = "en"
  IN  Insight(rated[1],
              IF english THEN "Confirmed" ELSE lang.support,
              IF english THEN "English is the primary language spoken" ELSE lang.note,
              rated[3], rated[2], facilityType)

\* aiAnalysis.facilities[index] when aiAnalysis, its facilities and that entry
\* are all truthy; index counts from 1 here.
directAI(aiAnalysis, index) ==
  IF /\ IsSome(aiAnalysis)
     /\ IsSome(Val(aiAnalysis).facilities)
     /\ index <= Len(Val(Val(aiAnalysis).facilities))
  THEN Val(Val(aiAnalysis).facilities)[index]
  ELSE None

\* An application that takes the rating of the generative entry and the other
\* fields from the rules.
applyAIInsightsMerged(facility, index, needTypes, aiAnalysis, languageContext) ==
  LET override == serviceOverride(lowerName(facility), needTypes)
      direct == directAI(aiAnalysis, index)
      rules == ruleInsights(facility, needTypes, aiAnalysis, languageContext)
  IN  IF IsSome(override) THEN Val(override)
      ELSE IF IsSome(direct)
           THEN [rules EXCEPT !.medical_relevance = Val(direct).medical_relevance]
      ELSE rules

\* An order of precedence in which the generative entry is read before the
\* manual override.
applyAIInsightsDirectFirst(facility, index, needTypes, aiAnalysis, languageContext) ==
  LET override == serviceOverride(lowerName(facility), needTypes)
      direct == directAI(aiAnalysis, index)
  IN  IF IsSome(direct) THEN Val(direct)
      ELSE IF IsSome(override) THEN Val(override)
      ELSE ruleInsights(facility, needTypes, aiAnalysis, languageContext)

applyAIInsights(facility, index, needTypes, aiAnalysis, languageContext) ==
  LET override == serviceOverride(lowerName(facility), needTypes)
      direct == directAI(aiAnalysis, index)
  IN  IF IsSome(override) THEN Val(override)
      ELSE IF IsSome(direct) THEN Val(direct)
      ELSE ruleInsights(facility, needTypes, aiAnalysis, languageContext)

likelyServices(needTypes) ==
  IF needIncludes(needTypes, "emergency") THEN <<"Emergency care", "Stroke treatment">>
  ELSE IF needIncludes(needTypes, "rehabilitation")
       THEN <<"Rehabilitation services", "Therapy programs">>
  ELSE IF needIncludes(needTypes, "speech-therapy")
       THEN <<"Speech therapy", "Language therapy">>
  ELSE IF needIncludes(needTypes, "physical-therapy")
       THEN <<"Physical therapy", "Motor rehabilitation">>
  ELSE IF needIncludes(needTypes, "occupational-therapy")
       THEN <<"Occupational therapy", "Daily living skills">>
  ELSE <<"Medical services">>

\* One element of enhancedFacilities: the facility's fields, then ...aiInsights
\* (a key the insight object has replaces the field), then likely_services.
enhancedFacility(facility, index, needTypes, aiAnalysis, languageContext) ==
  LET ai == applyAIInsights(facility, index, needTypes, aiAnalysis, languageContext)
  IN  [ name |-> IF ai.name # Null THEN ai.name
                 ELSE orElse(facility.displayName, "Unknown"),
        address |-> orElse(facility.formattedAddress, "Address not available"),
        phone |-> orElse(facility.internationalPhoneNumber, "Not available"),
        website |-> orElse(facility.websiteUri, "Not available"),
        rating |-> orElse(facility.rating, "Not available"),
        distance |-> facility.distance,
        directions |-> facility.directions,
        types |-> facility.types,
        medical_relevance |-> ai.medical_relevance,
        language_support |-> ai.language_support,
        language_note |-> ai.language_note,
        service_match |-> ai.service_match,
        specialty_note |-> ai.specialty_note,
        facility_type |-> ai.facility_type,
        likely_services |-> likelyServices(needTypes) ]

\* An enrichment that returns facilities only when the analysis was obtained.
enhancedAnalysedOnly(realFacilities, needTypes, language, detectedLocalLanguage, outcome) ==
  LET languageContext == IF language = "local" THEN detectedLocalLanguage ELSE language
      aiAnalysis == aiAnalysisOf(outcome)
  IN  [ i \in 1..(IF IsSome(aiAnalysis) THEN Len(realFacilities) ELSE 0) |->
          enhancedFacility(realFacilities[i], i, needTypes, aiAnalysis, languageContext) ]

\* enhancedFacilities of enhanceWithChatGPT, for the outcome of the generative call.
enhancedFacilities(realFacilities, needTypes, language, detectedLocalLanguage, outcome) ==
  LET languageContext == IF language = "local" THEN detectedLocalLanguage ELSE language
      aiAnalysis == aiAnalysisOf(outcome)
  IN  [ i \in 1..Len(realFacilities) |->
          enhancedFacility(realFacilities[i], i, needTypes, aiAnalysis, languageContext) ]

(***************************************************************************)
(* The environment: requests, geocoding results, place-search results and  *)
(* generative results the providers may give.                              *)
(***************************************************************************)
\* The non-empty place lists a text search may return.
PlaceLists ==
  { << RehabHospital, DentalHospital, VetClinic >>,
    << EyeHospital, EyeHospitalUpper, VetHospital >>,
    << StrokeHospital, SpeechClinic, EyeHospital >>,
    << FarHospital, MercyHospitalWestEnd, MercyWestHospital >> }

GeoPoint(lat, country) == [lat |-> lat, lng |-> 0, country |-> country]

\* What a geocoding call may come back with.
GeoOutcomes ==
  { [kind |-> "ok", coords |-> Some(GeoPoint(0, "US"))],
    [kind |-> "ok", coords |-> Some(GeoPoint(200, "NP"))],
    [kind |-> "empty", coords |-> None],
    [kind |-> "error", coords |-> None] }

\* What a text-search call may come back with.
PlacesOutcomes ==
  { [kind |-> "error", places |-> <<>>], [kind |-> "ok", places |-> <<>>] }
  \cup { [kind |-> "ok", places |-> l] : l \in PlaceLists }

AIEntryHigh ==
  [ medical_relevance |-> "High", language_support |-> "Likely",
    language_note |-> "Staff may speak the language", service_match |-> "Excellent",
    specialty_note |-> "Assessed by the generative service",
    facility_type |-> "hospital", name |-> Null ]

\* An entry of the wrong shape: an object with none of the expected keys.
AIEntryEmpty ==
  [ medical_relevance |-> Null, language_support |-> Null, language_note |-> Null,
    service_match |-> Null, specialty_note |-> Null, facility_type |-> Null,
    name |-> Null ]

\* An entry that also carries a key of the facility record itself: the
\* generative service chose its own spelling of the name.  (...aiInsights is
\* spread after the facility's fields, so any such key replaces the field.)
AIEntryRenamed ==
  [ medical_relevance |-> "Medium", language_support |-> "Likely",
    language_note |-> "Staff may speak the language", service_match |-> "Good",
    specialty_note |-> "Assessed by the generative service",
    facility_type |-> "hospital", name |-> "Renamed by the generative service" ]

AIPatterns ==
  [ hospital_language_support |-> "Likely", urgent_care_language_support |-> Null,
    clinic_language_support |-> Null,
    general_language_note |-> "Interpreters are common in this area" ]

\* What the generative call may come back with when n facilities were submitted.
AIOutcomes(n) ==
  { [kind |-> "throw", facilities |-> None, patterns |-> None],
    [kind |-> "nonjson", facilities |-> None, patterns |-> None],
    [kind |-> "json", facilities |-> None, patterns |-> None],
    [kind |-> "json", facilities |-> None, patterns |-> Some(AIPatterns)],
    [kind |-> "json", facilities |-> Some([i \in 1..n |-> Some(AIEntryHigh)]),
       patterns |-> None],
    [kind |-> "json", facilities |-> Some([i \in 1..n |-> Some(AIEntryEmpty)]),
       patterns |-> None],
    [kind |-> "json", facilities |-> Some([i \in 1..n |-> Some(AIEntryRenamed)]),
       patterns |-> None] }

NoOutcome == [kind |-> "none", facilities |-> None, patterns |-> None]

Locations == {"Nashville, TN", "   ", "", Null}
NeedInputs ==
  { NeedMissing, NeedArray(<<>>), NeedArray(<<"emergency">>),
    NeedArray(<<"rehabilitation">>), NeedArray(<<"speech-therapy">>),
    NeedArray(<<"support-groups">>), NeedString("emergency") }
Languages == {"en", "local"}

Requests ==
  { [location |-> l, needTypes |-> n, language |-> g] :
      l \in Locations, n \in NeedInputs, g \in Languages }

(***************************************************************************)
(* State.                                                                  *)
(***************************************************************************)
VARIABLES
  pc,                    \* where the handler of the request is waiting
  request,               \* req.body: location, needTypes, language
  language,              \* the route's `language` variable
  routeCoords,           \* the route's userCoords
  detectedLocalLanguage,
  userCoords,            \* userCoords of getRealFacilities
  queries,               \* searchQueries
  qi,                    \* index of the query the loop is at
  allFacilities,         \* the collector of the query loop
  returned,              \* every place list the provider returned, in call order
  nFailed,               \* text-search calls that threw
  nOk,                   \* text-search calls that returned places
  unique,                \* uniqueFacilities
  filtered,              \* filteredFacilities
  googleResults,         \* what getRealFacilities returned
  aiOutcome,             \* what the generative call came back with
  status,                \* HTTP status of the response, 0 before it is sent
  body,                  \* the response body
  geoCalls, placeCalls, aiCalls

\* POST /search/sort
VARIABLES
  sortReq,               \* req.body of the sort request: facilities, sortBy
  sortRes,               \* the response of the sort route
  sortPrev               \* the request and response of the sort before this one

sortVars == << sortReq, sortRes, sortPrev >>

\* services/cache.js: the SimpleCache instance searchCache, and the clock.
VARIABLES
  cache,                 \* this.cache: key -> value
  timers,                \* this.timers: key -> the timeout stored for the key
  pending,               \* the timeouts that are scheduled and not cleared
  now,                   \* milliseconds since the process started
  lastSet,               \* key -> the most recent set by a client: at, ttl, value
  lastGet                \* the most recent get by a client: key, result, at

cacheVars == << cache, timers, pending, now, lastSet, lastGet >>

\* POST / of routes/search.js, the route that keeps a memo of its answers.
VARIABLES
  memoPc,                \* where the handler of the request is waiting
  memoReq,               \* req.body
  memoRes,               \* the response
  memoSeen,              \* the keys searchCache held when the handler looked up
  memoGeoCalls,          \* geocoding calls made for the request
  memoAiCalls            \* generative calls made for the request

memoVars == << memoPc, memoReq, memoRes, memoSeen, memoGeoCalls, memoAiCalls >>

\* The state of the routes other than POST /search.
otherRoutes == << sortVars, cacheVars, memoVars >>

vars ==
  << pc, request, language, routeCoords, detectedLocalLanguage, userCoords, queries,
     qi, allFacilities, returned, nFailed, nOk, unique, filtered, googleResults,
     aiOutcome, status, body, geoCalls, placeCalls, aiCalls, otherRoutes >>

NoSortRequest == [facilities |-> None, sortBy |-> Null]
NoSortResponse == [status |-> 0, success |-> FALSE, facilities |-> <<>>, sorted_by |-> Null]
NoSortPrev == [input |-> <<>>, output |-> <<>>, sorted_by |-> Null]

\* No sort request has been received.
SortIdle ==
  /\ sortReq = NoSortRequest
  /\ sortRes = NoSortResponse
  /\ sortPrev = NoSortPrev

\* new SimpleCache(): both maps empty, nothing scheduled.
NoGet == [key |-> Null, value |-> None, at |-> 0]

CacheIdle ==
  /\ cache = <<>>
  /\ timers = <<>>
  /\ pending = {}
  /\ now = 0
  /\ lastSet = <<>>
  /\ lastGet = NoGet

NoMemoRequest ==
  [location |-> Null, needType |-> Null, urgency |-> Null, language |-> Null,
   insurance |-> Null, additionalNeeds |-> Null]

\* cached is FALSE in a response that carries no cached field; success is
\* None in one that carries no success field.
NoMemoResponse ==
  [status |-> 0, success |-> None, cached |-> FALSE, facilities |-> <<>>, error |-> Null]

\* No request to the memo route has been received.
MemoIdle ==
  /\ memoPc = "idle"
  /\ memoReq = NoMemoRequest
  /\ memoRes = NoMemoResponse
  /\ memoSeen = {}
  /\ memoGeoCalls = 0
  /\ memoAiCalls = 0

NoBody == [success |-> FALSE, error |-> "", facilities |-> <<>>, suggestion |-> Null]

\* The handler of POST /search has not run yet.
SearchFresh ==
  /\ language = request.language
  /\ routeCoords = None
  /\ detectedLocalLanguage = Null
  /\ userCoords = None
  /\ queries = <<>>
  /\ qi = 0
  /\ allFacilities = <<>>
  /\ returned = <<>>
  /\ nFailed = 0
  /\ nOk = 0
  /\ unique = <<>>
  /\ filtered = <<>>
  /\ googleResults = <<>>
  /\ aiOutcome = NoOutcome
  /\ status = 0
  /\ body = NoBody
  /\ geoCalls = 0
  /\ placeCalls = 0
  /\ aiCalls = 0

\* No request to POST /search has been received.
SearchIdle ==
  /\ request = [location |-> Null, needTypes |-> NeedMissing, language |-> "en"]
  /\ pc = "idle"
  /\ SearchFresh

Init ==
  /\ request \in Requests
  /\ pc = "start"
  /\ SearchFresh
  /\ SortIdle
  /\ CacheIdle
  /\ MemoIdle

(***************************************************************************)
(* POST /search, one action per turn of the event loop.                    *)
(***************************************************************************)
\* A validation without the length test: !location || !needTypes
missingFieldsNoLength(req) ==
  \/ req.location = Null \/ req.location = ""
  \/ req.needTypes.kind = "missing"

\* !location || !needTypes || !needTypes.length
missingFields(req) ==
  \/ req.location = Null \/ req.location = ""
  \/ req.needTypes.kind = "missing"
  \/ needLength(req.needTypes) = 0

\* The route is entered: a request with missing fields is answered 400 at once,
\* any other request starts the route's geocoding call.
HandleRequest ==
  /\ pc = "start"
  /\ IF missingFields(request)
     THEN /\ status' = 400
          /\ body' = [NoBody EXCEPT !.error =
                        "Missing required fields: location and needTypes are required."]
          /\ pc' = "done"
          /\ UNCHANGED geoCalls
     ELSE /\ geoCalls' = geoCalls + 1
          /\ pc' = "geo1_wait"
          /\ UNCHANGED << status, body >>
  /\ UNCHANGED otherRoutes
  /\ UNCHANGED << request, language, routeCoords, detectedLocalLanguage, userCoords,
                  queries, qi, allFacilities, returned, nFailed, nOk, unique, filtered,
                  googleResults, aiOutcome, placeCalls, aiCalls >>

\* getLocationCoordinates: the coordinates, or null for no result and for an error.
getLocationCoordinates(outcome) ==
  IF outcome.kind = "ok" THEN outcome.coords ELSE None

\* The route's geocoding call returns; getRealFacilities starts and geocodes again.
RouteGeocodeReturns(outcome) ==
  /\ pc = "geo1_wait"
  /\ routeCoords' = getLocationCoordinates(outcome)
  /\ detectedLocalLanguage' =
       IF IsSome(routeCoords') THEN getLocalLanguage(Val(routeCoords').country) ELSE "en"
  /\ language' = IF language = "local" THEN detectedLocalLanguage' ELSE language
  /\ geoCalls' = geoCalls + 1
  /\ pc' = "geo2_wait"
  /\ UNCHANGED otherRoutes
  /\ UNCHANGED << request, userCoords, queries, qi, allFacilities, returned, nFailed,
                  nOk, unique, filtered, googleResults, aiOutcome, status, body,
                  placeCalls, aiCalls >>

\* The geocoding call of getRealFacilities returns; the query list is built and
\* the first text search is issued.
FetchGeocodeReturns(outcome) ==
  /\ pc = "geo2_wait"
  /\ userCoords' = getLocationCoordinates(outcome)
  /\ queries' = searchQueries(request.location, request.needTypes)
  /\ qi' = 1
  /\ placeCalls' = placeCalls + 1
  /\ pc' = "places_wait"
  /\ UNCHANGED otherRoutes
  /\ UNCHANGED << request, language, routeCoords, detectedLocalLanguage, allFacilities,
                  returned, nFailed, nOk, unique, filtered, googleResults, aiOutcome,
                  status, body, geoCalls, aiCalls >>

\* The next iteration of the query loop: the next text search is issued.
NextQuery ==
  /\ qi' = qi + 1
  /\ placeCalls' = placeCalls + 1
  /\ pc' = "places_wait"
  /\ UNCHANGED << unique, filtered, googleResults, status, body, aiCalls >>

\* A route without the test of googleResults.length: the generative service
\* is called for an empty result too.
RankAndRespondAlways(all) ==
  /\ unique' = uniqueFacilities(all)
  /\ filtered' = IF needJoinThrows(request.needTypes) THEN <<>>
                 ELSE filterFacilitiesByServiceType(unique', request.needTypes)
  /\ googleResults' =
       rankCollected(all, request.location, request.needTypes, userCoords)
  /\ aiCalls' = aiCalls + 1
  /\ pc' = "ai_wait"
  /\ UNCHANGED << qi, placeCalls, status, body >>

\* After the query loop, with collector `all`: the collected places are
\* deduplicated, filtered, ranked and cut, and the route either answers "no
\* facilities" or calls the generative service.
RankAndRespond(all) ==
  /\ unique' = uniqueFacilities(all)
  /\ filtered' = IF needJoinThrows(request.needTypes) THEN <<>>
                 ELSE filterFacilitiesByServiceType(unique', request.needTypes)
  /\ googleResults' =
       rankCollected(all, request.location, request.needTypes, userCoords)
  /\ UNCHANGED << qi, placeCalls >>
  /\ IF Len(googleResults') = 0
     THEN /\ status' = 200
          /\ body' = [ success |-> FALSE,
                       error |-> "No medical facilities found in your area",
                       facilities |-> <<>>,
                       suggestion |->
                         "Try searching for a larger city or different location" ]
          /\ pc' = "done"
          /\ UNCHANGED aiCalls
     ELSE /\ aiCalls' = aiCalls + 1
          /\ pc' = "ai_wait"
          /\ UNCHANGED << status, body >>

\* The query loop moves on from query qi with collector `all`.
LoopContinues(all) ==
  IF qi < Len(queries) THEN NextQuery ELSE RankAndRespond(all)

\* A text search returns places (possibly none): they are appended to the
\* collector and the pacing delay starts.
PlacesReturn(outcome) ==
  /\ pc = "places_wait"
  /\ outcome.kind = "ok"
  /\ Len(outcome.places) > 0 => nOk < MaxOkQueries
  /\ allFacilities' = allFacilities \o outcome.places
  /\ returned' = returned \o outcome.places
  /\ nOk' = nOk + (IF Len(outcome.places) > 0 THEN 1 ELSE 0)
  /\ pc' = "pacing"
  /\ UNCHANGED otherRoutes
  /\ UNCHANGED << request, language, routeCoords, detectedLocalLanguage, userCoords,
                  queries, qi, nFailed, unique, filtered, googleResults, aiOutcome,
                  status, body, geoCalls, placeCalls, aiCalls >>

\* The 200 ms timer after a successful text search fires.
PacingElapsed ==
  /\ pc = "pacing"
  /\ LoopContinues(allFacilities)
  /\ UNCHANGED otherRoutes
  /\ UNCHANGED << request, language, routeCoords, detectedLocalLanguage, userCoords,
                  queries, allFacilities, returned, nFailed, nOk, aiOutcome, geoCalls >>

\* A loop whose catch leaves the loop: the first failing query ends the batch.
PlacesFailAborts(outcome) ==
  /\ pc = "places_wait"
  /\ outcome.kind = "error"
  /\ nFailed' = nFailed + 1
  /\ RankAndRespond(allFacilities)
  /\ UNCHANGED otherRoutes
  /\ UNCHANGED << request, language, routeCoords, detectedLocalLanguage, userCoords,
                  queries, allFacilities, returned, nOk, aiOutcome, geoCalls >>

\* A text search throws: the catch logs it and the loop continues.
PlacesFail(outcome) ==
  /\ pc = "places_wait"
  /\ outcome.kind = "error"
  /\ nFailed' = nFailed + 1
  /\ LoopContinues(allFacilities)
  /\ UNCHANGED otherRoutes
  /\ UNCHANGED << request, language, routeCoords, detectedLocalLanguage, userCoords,
                  queries, allFacilities, returned, nOk, aiOutcome, geoCalls >>

\* A generative call with no try/catch around it: a throw of the call or of
\* JSON.parse reaches the route's catch, which answers 500.
GenerativeReturnsUncaught(outcome) ==
  /\ pc = "ai_wait"
  /\ aiOutcome' = outcome
  /\ IF outcome.kind = "json"
     THEN /\ status' = 200
          /\ body' = [ success |-> TRUE, error |-> "",
                       facilities |-> enhancedFacilities(googleResults, request.needTypes,
                                        language, detectedLocalLanguage, outcome),
                       suggestion |-> Null ]
     ELSE /\ status' = 500
          /\ body' = [ NoBody EXCEPT !.error = "Search failed" ]
  /\ pc' = "done"
  /\ UNCHANGED otherRoutes
  /\ UNCHANGED << request, language, routeCoords, detectedLocalLanguage, userCoords,
                  queries, qi, allFacilities, returned, nFailed, nOk, unique, filtered,
                  googleResults, geoCalls, placeCalls, aiCalls >>

\* The generative call returns or throws; the insights are applied and the
\* response is sent.
GenerativeReturns(outcome) ==
  /\ pc = "ai_wait"
  /\ aiOutcome' = outcome
  /\ status' = 200
  /\ body' = [ success |-> TRUE, error |-> "",
               facilities |-> enhancedFacilities(googleResults, request.needTypes,
                                language, detectedLocalLanguage, outcome),
               suggestion |-> Null ]
  /\ pc' = "done"
  /\ UNCHANGED otherRoutes
  /\ UNCHANGED << request, language, routeCoords, detectedLocalLanguage, userCoords,
                  queries, qi, allFacilities, returned, nFailed, nOk, unique, filtered,
                  googleResults, geoCalls, placeCalls, aiCalls >>

Next ==
  \/ HandleRequest
  \/ \E o \in GeoOutcomes : RouteGeocodeReturns(o)
  \/ \E o \in GeoOutcomes : FetchGeocodeReturns(o)
  \/ \E o \in PlacesOutcomes : PlacesReturn(o)
  \/ PacingElapsed
  \/ \E o \in PlacesOutcomes : PlacesFail(o)
  \/ \E o \in AIOutcomes(Len(facilitiesForAI(googleResults))) : GenerativeReturns(o)

Spec == Init /\ [][Next]_vars

(***************************************************************************)
(* Fairness.  The handler's own turns always run: the route is entered and *)
(* the pacing timer fires.  A provider call resumes the handler only when  *)
(* the provider answers; no call carries a timeout (axios.get / axios.post *)
(* are given none), so nothing obliges an answer.                          *)
(***************************************************************************)
LiveSpec == Spec /\ WF_vars(HandleRequest) /\ WF_vars(PacingElapsed)

(***************************************************************************)
(* The ranking specification: getRealFacilities from the end of its query  *)
(* loop, for every set of need types and every collected list of up to     *)
(* MaxCandidates places, followed by the enrichment.                       *)
(***************************************************************************)
NeedTypeNames ==
  << "emergency", "rehabilitation", "speech-therapy", "physical-therapy",
     "occupational-therapy", "support-groups" >>

\* The need types of S as an array, in the order of NeedTypeNames.
NeedArrayOf(S) == NeedArray(SelectSeq(NeedTypeNames, LAMBDA t : t \in S))

AllNeedArrays ==
  { NeedArrayOf(S) : S \in (SUBSET { NeedTypeNames[i] : i \in 1..6 }) \ {{}} }

Candidates ==
  { RehabHospital, DentalHospital, VetClinic, VetHospital, EyeHospital, SpeechClinic,
    StPetersHospital }

CandidateLists ==
  UNION { [1..n -> Candidates] : n \in 0..MaxCandidates }

RankInit ==
  /\ request \in { [location |-> "Nashville, TN", needTypes |-> n, language |-> "en"] :
                      n \in AllNeedArrays }
  /\ allFacilities \in CandidateLists
  /\ SortIdle
  /\ CacheIdle
  /\ MemoIdle
  /\ userCoords \in {None, Some(GeoPoint(0, "US"))}
  /\ pc = "pacing"
  /\ language = "en"
  /\ routeCoords = userCoords
  /\ detectedLocalLanguage = "en"
  /\ queries = searchQueries(request.location, request.needTypes)
  /\ qi = Len(queries)
  /\ returned = allFacilities
  /\ nFailed = 0
  /\ nOk = IF Len(allFacilities) > 0 THEN 1 ELSE 0
  /\ unique = <<>>
  /\ filtered = <<>>
  /\ googleResults = <<>>
  /\ aiOutcome = NoOutcome
  /\ status = 0
  /\ body = NoBody
  /\ geoCalls = 2
  /\ placeCalls = Len(queries)
  /\ aiCalls = 0

RankNext ==
  \/ PacingElapsed
  \/ \E o \in AIOutcomes(Len(facilitiesForAI(googleResults))) : GenerativeReturns(o)

RankSpec == RankInit /\ [][RankNext]_vars

(***************************************************************************)
(* The insight specification: the same steps for one collected place of    *)
(* InsightPlaces, which adds places named like the examples of the prompt. *)
(***************************************************************************)
InsightPlaces ==
  { StrokeCenter, CentralHospital, EmergencyDepartment, SkinHospital, EntHospital,
    StrokeHospital, SpeechClinic, EyeHospital, DentalHospital, RehabHospital }

InsightInit ==
  /\ request \in { [location |-> "Nashville, TN", needTypes |-> n, language |-> g] :
                      n \in AllNeedArrays, g \in {"en", "es"} }
  /\ allFacilities \in { << p >> : p \in InsightPlaces }
  /\ SortIdle
  /\ CacheIdle
  /\ MemoIdle
  /\ userCoords = Some(GeoPoint(0, "US"))
  /\ pc = "pacing"
  /\ language = request.language
  /\ routeCoords = userCoords
  /\ detectedLocalLanguage = "en"
  /\ queries = searchQueries(request.location, request.needTypes)
  /\ qi = Len(queries)
  /\ returned = allFacilities
  /\ nFailed = 0
  /\ nOk = 1
  /\ unique = <<>>
  /\ filtered = <<>>
  /\ googleResults = <<>>
  /\ aiOutcome = NoOutcome
  /\ status = 0
  /\ body = NoBody
  /\ geoCalls = 2
  /\ placeCalls = Len(queries)
  /\ aiCalls = 0

InsightSpec == InsightInit /\ [][RankNext]_vars

(***************************************************************************)
(* The query-list specification: the route up to the first text search,    *)
(* for every needTypes array of up to MaxNeedLen need types in any order   *)
(* and with repetition.                                                    *)
(***************************************************************************)
NeedSeqs ==
  UNION { [1..n -> { NeedTypeNames[i] : i \in 1..6 }] : n \in 1..MaxNeedLen }

QueryInit ==
  /\ request \in { [location |-> l, needTypes |-> NeedArray(a), language |-> "en"] :
                      l \in {"Nashville, TN", "Kathmandu"}, a \in NeedSeqs }
  /\ pc = "start"
  /\ SearchFresh
  /\ SortIdle
  /\ CacheIdle
  /\ MemoIdle

QueryNext ==
  \/ HandleRequest
  \/ \E o \in GeoOutcomes : RouteGeocodeReturns(o)
  \/ \E o \in GeoOutcomes : FetchGeocodeReturns(o)

QuerySpec == QueryInit /\ [][QueryNext]_vars

(***************************************************************************)
(* The deduplication specification: the steps after the query loop for     *)
(* every collected list of up to MaxCollected places of DedupPlaces, two   *)
(* of which have a hyphen in the name or in the address.                   *)
(***************************************************************************)
DedupPlaces == { MercyWestHospital, MercyHospitalWestEnd, StrokeCenter, SummitHospital }

DedupLists == UNION { [1..n -> DedupPlaces] : n \in 1..MaxCollected }

DedupInit ==
  /\ request = [location |-> "Nashville, TN", needTypes |-> NeedArray(<<"emergency">>),
                language |-> "en"]
  /\ allFacilities \in DedupLists
  /\ SortIdle
  /\ CacheIdle
  /\ MemoIdle
  /\ userCoords = Some(GeoPoint(0, "US"))
  /\ pc = "pacing"
  /\ language = request.language
  /\ routeCoords = userCoords
  /\ detectedLocalLanguage = "en"
  /\ queries = searchQueries(request.location, request.needTypes)
  /\ qi = Len(queries)
  /\ returned = allFacilities
  /\ nFailed = 0
  /\ nOk = 1
  /\ unique = <<>>
  /\ filtered = <<>>
  /\ googleResults = <<>>
  /\ aiOutcome = NoOutcome
  /\ status = 0
  /\ body = NoBody
  /\ geoCalls = 2
  /\ placeCalls = Len(queries)
  /\ aiCalls = 0

DedupSpec == DedupInit /\ [][RankNext]_vars

(***************************************************************************)
(* The ordering specification: the same steps for every collected list of  *)
(* up to MaxOrdered places of OrderPlaces, which differ in score and in     *)
(* whether their distance is known.                                        *)
(***************************************************************************)
OrderPlaces ==
  { StrokeCenter, CentralHospital, RehabHospital, EmergencyDepartment, MercyHospital,
    SummitHospital, UrgentHospital }

OrderLists == UNION { [1..n -> OrderPlaces] : n \in 1..MaxOrdered }

OrderInit ==
  /\ request \in { [location |-> "Nashville, TN", needTypes |-> NeedArray(n),
                     language |-> "en"] :
                      n \in { <<"emergency">>, <<"rehabilitation">>,
                              <<"emergency", "rehabilitation">> } }
  /\ allFacilities \in OrderLists
  /\ SortIdle
  /\ CacheIdle
  /\ MemoIdle
  /\ userCoords = Some(GeoPoint(0, "US"))
  /\ pc = "pacing"
  /\ language = request.language
  /\ routeCoords = userCoords
  /\ detectedLocalLanguage = "en"
  /\ queries = searchQueries(request.location, request.needTypes)
  /\ qi = Len(queries)
  /\ returned = allFacilities
  /\ nFailed = 0
  /\ nOk = 1
  /\ unique = <<>>
  /\ filtered = <<>>
  /\ googleResults = <<>>
  /\ aiOutcome = NoOutcome
  /\ status = 0
  /\ body = NoBody
  /\ geoCalls = 2
  /\ placeCalls = Len(queries)
  /\ aiCalls = 0

OrderSpec == OrderInit /\ [][RankNext]_vars

(***************************************************************************)
(* The enrichment specification: the same steps for a collected list long  *)
(* enough to pass maxFacilitiesForAI, and a generative service that may    *)
(* return more entries than facilities were submitted to it.               *)
(***************************************************************************)
Letters == "ABCDEFGHIJKLMNOPQRSTUVWXYZ"

\* The i-th of a row of general hospitals, each a mile further than the last.
NumberedPlace(i) ==
  Place("General Hospital " \o CharAt(Letters, i), "Ward " \o CharAt(Letters, i),
        <<"hospital">>, At(10 * i))

LongLists ==
  { [i \in 1..n |-> NumberedPlace(i)] : n \in (maxFacilitiesForAI - 1)..MaxRanked }

\* AIOutcomes(n), and responses whose facilities list is longer than n.
AIOutcomesLong(n) ==
  AIOutcomes(n)
    \cup { [kind |-> "json", patterns |-> None,
            facilities |-> Some([i \in 1..(n + extra) |-> Some(AIEntryHigh)])] :
              extra \in 1..MaxExtraEntries }

EnrichInit ==
  /\ request \in { [location |-> "Nashville, TN", needTypes |-> n, language |-> g] :
                      n \in AllNeedArrays, g \in {"en", "es"} }
  /\ allFacilities \in LongLists
  /\ SortIdle
  /\ CacheIdle
  /\ MemoIdle
  /\ userCoords = Some(GeoPoint(0, "US"))
  /\ pc = "pacing"
  /\ language = request.language
  /\ routeCoords = userCoords
  /\ detectedLocalLanguage = "en"
  /\ queries = searchQueries(request.location, request.needTypes)
  /\ qi = Len(queries)
  /\ returned = allFacilities
  /\ nFailed = 0
  /\ nOk = 1
  /\ unique = <<>>
  /\ filtered = <<>>
  /\ googleResults = <<>>
  /\ aiOutcome = NoOutcome
  /\ status = 0
  /\ body = NoBody
  /\ geoCalls = 2
  /\ placeCalls = Len(queries)
  /\ aiCalls = 0

EnrichNext ==
  \/ PacingElapsed
  \/ \E o \in AIOutcomesLong(Len(facilitiesForAI(googleResults))) : GenerativeReturns(o)

EnrichSpec == EnrichInit /\ [][EnrichNext]_vars

(***************************************************************************)
(* POST /search/sort.  The route is synchronous: one action answers a      *)
(* request.  A client may hand the facilities of a response back to the    *)
(* route with the same sortBy.                                             *)
(***************************************************************************)
\* A facility of a search response, as far as the sort route reads it.
SortFacility(name, relevance, distance) ==
  [name |-> name, medical_relevance |-> relevance, distance |-> distance]

Miles(m) == Some([miles |-> m])

SortFacilities ==
  { SortFacility("A", "High", Miles(50)), SortFacility("B", "Low", Miles(30)),
    SortFacility("C", "Medium", Miles(10)), SortFacility("D", "High", None),
    SortFacility("E", Null, None) }

SortLists == UNION { [1..n -> SortFacilities] : n \in 0..MaxSortLen }

SortRequests ==
  { [facilities |-> Some(l), sortBy |-> by] :
      l \in SortLists, by \in {"distance", "relevance", Null} }
    \cup { [facilities |-> None, sortBy |-> "distance"] }

\* A route that sorts a reversed copy of facilities.
sortFacilitiesByReversed(facilities, sortBy) ==
  IF sortBy = "distance" THEN arraySort(Reverse(facilities), [by |-> "distance"])
  ELSE IF sortBy = "relevance" THEN arraySort(Reverse(facilities), [by |-> "relevance"])
  ELSE facilities

\* sortedFacilities of the sort route: a copy of facilities, sorted by sortBy.
sortFacilitiesBy(facilities, sortBy) ==
  IF sortBy = "distance" THEN arraySort(facilities, [by |-> "distance"])
  ELSE IF sortBy = "relevance" THEN arraySort(facilities, [by |-> "relevance"])
  ELSE facilities

\* The response of the sort route to req.body.
sortResponse(req) ==
  IF ~IsSome(req.facilities)
  THEN [status |-> 400, success |-> FALSE, facilities |-> <<>>, sorted_by |-> Null]
  ELSE [status |-> 200, success |-> TRUE,
        facilities |-> sortFacilitiesBy(Val(req.facilities), req.sortBy),
        sorted_by |-> req.sortBy]

SortInit ==
  /\ SearchIdle
  /\ CacheIdle
  /\ MemoIdle
  /\ sortReq \in SortRequests
  /\ sortRes = NoSortResponse
  /\ sortPrev = NoSortPrev

\* The sort route answers the request.
HandleSort ==
  /\ sortReq # NoSortRequest
  /\ sortRes = NoSortResponse
  /\ sortRes' = sortResponse(sortReq)
  /\ UNCHANGED << sortReq, sortPrev, cacheVars, memoVars >>
  /\ UNCHANGED << pc, request, language, routeCoords, detectedLocalLanguage, userCoords,
                  queries, qi, allFacilities, returned, nFailed, nOk, unique, filtered,
                  googleResults, aiOutcome, status, body, geoCalls, placeCalls, aiCalls >>

\* The client sends the facilities of the response back with the same sortBy.
ResubmitSorted ==
  /\ sortRes.status = 200
  /\ sortPrev = NoSortPrev
  /\ sortPrev' = [input |-> Val(sortReq.facilities), output |-> sortRes.facilities,
                  sorted_by |-> sortRes.sorted_by]
  /\ sortReq' = [facilities |-> Some(sortRes.facilities), sortBy |-> sortReq.sortBy]
  /\ sortRes' = NoSortResponse
  /\ UNCHANGED << cacheVars, memoVars >>
  /\ UNCHANGED << pc, request, language, routeCoords, detectedLocalLanguage, userCoords,
                  queries, qi, allFacilities, returned, nFailed, nOk, unique, filtered,
                  googleResults, aiOutcome, status, body, geoCalls, placeCalls, aiCalls >>

SortNext == HandleSort \/ ResubmitSorted

SortSpec == SortInit /\ [][SortNext]_vars

(***************************************************************************)
(* services/cache.js, class SimpleCache.  A timeout is known by its key    *)
(* and the time it is due; its callback is a turn of the event loop of its *)
(* own, which runs no earlier than the time it is due and may run later.   *)
(***************************************************************************)
searchVars ==
  << pc, request, language, routeCoords, detectedLocalLanguage, userCoords, queries,
     qi, allFacilities, returned, nFailed, nOk, unique, filtered, googleResults,
     aiOutcome, status, body, geoCalls, placeCalls, aiCalls >>

\* Map.prototype.delete
Without(map, key) == [k \in DOMAIN map \ {key} |-> map[k]]

\* Map.prototype.set
With(map, key, value) == [k \in DOMAIN map \cup {key} |-> IF k = key THEN value ELSE map[k]]

Timeout(key, due) == [key |-> key, due |-> due]

\* set(key, value, ttl = 600000)
ttlOrDefault(ttl) == IF IsSome(ttl) THEN Val(ttl) ELSE 600000

\* A set that leaves the timeout of the earlier set of the key running.
cacheSetKeepsTimer(key, value, ttl) ==
  /\ cache' = With(cache, key, value)
  /\ pending' = pending \cup {Timeout(key, now + ttl)}
  /\ timers' = With(timers, key, now + ttl)

\* searchCache.set(key, value, ttl)
cacheSet(key, value, ttl) ==
  /\ cache' = With(cache, key, value)
  /\ pending' =
       (IF key \in DOMAIN timers THEN pending \ {Timeout(key, timers[key])} ELSE pending)
         \cup {Timeout(key, now + ttl)}
  /\ timers' = With(timers, key, now + ttl)

\* The set is recorded with the time it ran at and whether it found a timeout
\* of the key.
recordSet(key, value, ttl) ==
  lastSet' = With(lastSet, key,
                  [ at |-> now, ttl |-> ttl, value |-> value,
                    replaced |-> key \in DOMAIN timers ])

\* A get that finds nothing.
cacheGetNothing(key) == None

\* searchCache.get(key): Some(value), or None for undefined.
cacheGet(key) == IF key \in DOMAIN cache THEN Some(cache[key]) ELSE None

\* The get is recorded with the time it ran at.
recordGet(key) == lastGet' = [key |-> key, value |-> cacheGet(key), at |-> now]

\* searchCache.delete(key)
cacheDelete(key) ==
  /\ pending' =
       IF key \in DOMAIN timers THEN pending \ {Timeout(key, timers[key])} ELSE pending
  /\ timers' = Without(timers, key)
  /\ cache' = Without(cache, key)

\* searchCache.clear()
cacheClear ==
  /\ pending' = pending \ { Timeout(k, timers[k]) : k \in DOMAIN timers }
  /\ cache' = <<>>
  /\ timers' = <<>>

\* searchCache.size()
cacheSize == Cardinality(DOMAIN cache)

\* const cacheTime = searchData.urgency === 'emergency' ? 300000 : 1800000
cacheTime(urgency) == IF urgency = "emergency" THEN 300000 ELSE 1800000

\* The clock is read in steps of the shortest ttl.
ClockStep == cacheTime("emergency")

\* Time passes.
Tick ==
  /\ now < MaxTicks * ClockStep
  /\ now' = now + ClockStep
  /\ UNCHANGED << cache, timers, pending, lastSet, lastGet >>
  /\ UNCHANGED << searchVars, sortVars, memoVars >>

\* The callback of a timeout that is due runs: cache.delete(key), timers.delete(key).
TimerFires ==
  \E t \in pending :
    /\ now >= t.due
    /\ pending' = pending \ {t}
    /\ cache' = Without(cache, t.key)
    /\ timers' = Without(timers, t.key)
    /\ UNCHANGED << now, lastSet, lastGet >>
    /\ UNCHANGED << searchVars, sortVars, memoVars >>

CacheKeys == {"k1", "k2"}
CacheValues == {"v1", "v2"}
CacheTtls == {None, Some(cacheTime("emergency"))}

CacheSet ==
  \E key \in CacheKeys, value \in CacheValues, ttl \in CacheTtls :
    /\ cacheSet(key, value, ttlOrDefault(ttl))
    /\ recordSet(key, value, ttlOrDefault(ttl))
    /\ UNCHANGED << now, lastGet >>
    /\ UNCHANGED << searchVars, sortVars, memoVars >>

CacheGet ==
  \E key \in CacheKeys :
    /\ recordGet(key)
    /\ UNCHANGED << cache, timers, pending, now, lastSet >>
    /\ UNCHANGED << searchVars, sortVars, memoVars >>

CacheDelete ==
  \E key \in CacheKeys :
    /\ cacheDelete(key)
    /\ UNCHANGED << now, lastSet, lastGet >>
    /\ UNCHANGED << searchVars, sortVars, memoVars >>

CacheClear ==
  /\ cacheClear
  /\ UNCHANGED << now, lastSet, lastGet >>
  /\ UNCHANGED << searchVars, sortVars, memoVars >>

CacheInit == SearchIdle /\ SortIdle /\ CacheIdle /\ MemoIdle

CacheNext == CacheSet \/ CacheGet \/ CacheDelete \/ CacheClear \/ Tick \/ TimerFires

CacheSpec == CacheInit /\ [][CacheNext]_vars

(***************************************************************************)
(* routes/search.js, POST /: the search route that keeps a memo of its     *)
(* answers in searchCache.  One request is handled at a time.              *)
(***************************************************************************)
RECURSIVE trimStart(_)
trimStart(s) ==
  IF Len(s) > 0 /\ SubSeq(s, 1, 1) = " " THEN trimStart(SubSeq(s, 2, Len(s))) ELSE s

RECURSIVE trimEnd(_)
trimEnd(s) ==
  IF Len(s) > 0 /\ SubSeq(s, Len(s), Len(s)) = " "
  THEN trimEnd(SubSeq(s, 1, Len(s) - 1))
  ELSE s

\* String.prototype.trim, for strings whose only white space is the space.
trim(s) == trimEnd(trimStart(s))

\* !value || value.trim().length === 0
blank(value) == value = Null \/ value = "" \/ Len(trim(value)) = 0

validUrgency == {"emergency", "urgent", "scheduled"}

\* The middleware: ok is FALSE when it answered 400, else body is req.body as
\* it left it for the route.
validateSearchInput(reqBody) ==
  IF blank(reqBody.location)
  THEN [ok |-> FALSE, error |-> "Location is required", body |-> reqBody]
  ELSE IF blank(reqBody.needType)
  THEN [ok |-> FALSE, error |-> "Need type is required", body |-> reqBody]
  ELSE [ok |-> TRUE, error |-> Null,
        body |-> [reqBody EXCEPT
                    !.location = trim(@),
                    !.needType = trim(@),
                    !.additionalNeeds = IF @ # Null /\ @ # "" THEN trim(@) ELSE @,
                    !.urgency = IF @ # Null /\ @ # "" /\ @ \notin validUrgency
                                THEN "scheduled" ELSE @]]

\* const searchData = {...}
searchData(reqBody) ==
  [location |-> reqBody.location,
   needType |-> reqBody.needType,
   urgency |-> orElse(reqBody.urgency, "scheduled"),
   language |-> orElse(reqBody.language, "en"),
   insurance |-> reqBody.insurance,
   additionalNeeds |-> reqBody.additionalNeeds]

\* One member of a JSON object; a member whose value is undefined is left out.
\* The values here hold no character that JSON escapes.
jsonMember(name, value) ==
  IF value = Null THEN <<>> ELSE << "\"" \o name \o "\":\"" \o value \o "\"" >>

\* JSON.stringify(searchData)
jsonStringify(data) ==
  "{" \o join(jsonMember("location", data.location)
                \o jsonMember("needType", data.needType)
                \o jsonMember("urgency", data.urgency)
                \o jsonMember("language", data.language)
                \o jsonMember("insurance", data.insurance)
                \o jsonMember("additionalNeeds", data.additionalNeeds), ",") \o "}"

\* const cacheKey = `search_${JSON.stringify(searchData)}`
cacheKey(data) == "search_" \o jsonStringify(data)

\* createFallbackResponse, as far as the response shows it: success: false.
\* The success of a response is Some(TRUE), Some(FALSE), or None when the
\* object has no success key.  primitive is None for an object and Some(text)
\* for a number, boolean or string, known by its JSON text.
createFallbackResponse == [primitive |-> None, success |-> Some(FALSE), facilities |-> <<>>]

\* parseAIResponse: the parsed value itself.  An object has the success the
\* text holds (none when the text has no such key) and facilities made []
\* when it is not an array; on a number, boolean or string the assignments
\* of facilities, query and generated_at do nothing and the primitive is
\* returned.  The fallback when JSON.parse throws.
parseAIResponse(aiResponse) ==
  IF aiResponse.parses
  THEN IF IsSome(aiResponse.primitive)
       THEN [primitive |-> aiResponse.primitive, success |-> None, facilities |-> <<>>]
       ELSE [primitive |-> None,
             success |-> aiResponse.success,
             facilities |-> IF IsSome(aiResponse.facilities)
                            THEN Val(aiResponse.facilities)
                            ELSE <<>>]
  ELSE createFallbackResponse

\* The truthiness of a stored value: an object is truthy; of the primitives
\* 0, -0, false and "" are not.
truthy(value) ==
  IF IsSome(value.primitive)
  THEN Val(value.primitive) \notin {"0", "-0", "false", "\"\""}
  ELSE TRUE

\* enrichSearchResults: if (response.facilities) the facilities are mapped; a
\* primitive has none and is returned as it is.
enrichSearchResults(response) ==
  IF IsSome(response.primitive)
  THEN response
  ELSE [response EXCEPT
          !.facilities = [i \in 1..Len(@) |-> [name |-> @[i].name, verified |-> FALSE]]]

MemoRequest(loc, urg, lang) ==
  [location |-> loc, needType |-> "emergency", urgency |-> urg,
   language |-> lang, insurance |-> Null, additionalNeeds |-> Null]

MemoRequests ==
  { MemoRequest(" Nashville, TN ", "emergency", Null),
    MemoRequest(" Nashville, TN ", "emergency", "es"),
    MemoRequest(" Nashville, TN ", "asap", Null),
    MemoRequest("Nashville, TN", Null, "en"),
    MemoRequest("   ", "emergency", Null) }

\* The searchData of the requests the middleware lets through.
MemoData ==
  { searchData(validateSearchInput(b).body) :
      b \in { r \in MemoRequests : validateSearchInput(r).ok } }

\* What model.generateContent comes back with: text that parses as a JSON
\* object, with or without a success key and with or without a facilities
\* array, text that parses as a primitive (the number 0), text that does not
\* parse, or an exception.
MemoAIOutcomes ==
  { [throws |-> FALSE, parses |-> TRUE, primitive |-> None, success |-> None,
     facilities |-> Some(<< [name |-> "Stroke Center"] >>)],
    [throws |-> FALSE, parses |-> TRUE, primitive |-> None, success |-> Some(FALSE),
     facilities |-> Some(<< [name |-> "Stroke Center"] >>)],
    [throws |-> FALSE, parses |-> TRUE, primitive |-> None, success |-> Some(TRUE),
     facilities |-> None],
    [throws |-> FALSE, parses |-> TRUE, primitive |-> Some("0"), success |-> None,
     facilities |-> None],
    [throws |-> FALSE, parses |-> FALSE, primitive |-> None, success |-> None,
     facilities |-> None],
    [throws |-> TRUE, parses |-> FALSE, primitive |-> None, success |-> None,
     facilities |-> None] }

MemoResponse(code, response, cached, error) ==
  [status |-> code, success |-> response.success, cached |-> cached,
   facilities |-> response.facilities, error |-> error]

\* A request arrives; the middleware and the route run up to the first await.
MemoReceive ==
  \E reqBody \in MemoRequests :
    /\ memoPc \in {"idle", "done"}
    /\ LET v == validateSearchInput(reqBody)
           key == cacheKey(searchData(v.body))
           cachedResult == cacheGet(key)
       IN IF ~v.ok
          THEN /\ memoReq' = reqBody
               /\ memoRes' = MemoResponse(400, createFallbackResponse, FALSE, v.error)
               /\ memoPc' = "done"
               /\ memoSeen' = {}
               /\ memoGeoCalls' = 0
          ELSE /\ memoReq' = v.body
               /\ memoSeen' = DOMAIN cache
               /\ IF IsSome(cachedResult) /\ truthy(Val(cachedResult))
                  THEN /\ memoRes' = MemoResponse(200, Val(cachedResult), TRUE, Null)
                       /\ memoPc' = "done"
                       /\ memoGeoCalls' = 0
                  ELSE /\ memoRes' = NoMemoResponse
                       /\ memoPc' = "geo_wait"
                       /\ memoGeoCalls' = 1
    /\ memoAiCalls' = 0
    /\ UNCHANGED cacheVars
    /\ UNCHANGED << searchVars, sortVars >>

\* getLocationData returns, with the place or with { formatted: location } when
\* the call failed or found nothing; either only words the prompt.  The route
\* calls model.generateContent.
MemoLocationReturns ==
  /\ memoPc = "geo_wait"
  /\ memoPc' = "ai_wait"
  /\ memoAiCalls' = 1
  /\ UNCHANGED << memoReq, memoRes, memoSeen, memoGeoCalls >>
  /\ UNCHANGED << searchVars, sortVars, cacheVars >>

\* model.generateContent returns or throws; the route stores and answers.
MemoGenerativeReturns ==
  \E outcome \in MemoAIOutcomes :
    /\ memoPc = "ai_wait"
    /\ memoPc' = "done"
    /\ IF outcome.throws
       THEN /\ memoRes' = MemoResponse(500, createFallbackResponse, FALSE, "Search failed")
            /\ UNCHANGED << cache, timers, pending >>
       ELSE LET data == searchData(memoReq)
                enrichedResponse == enrichSearchResults(parseAIResponse(outcome))
            IN /\ cacheSet(cacheKey(data), enrichedResponse, cacheTime(data.urgency))
               /\ memoRes' = MemoResponse(200, enrichedResponse, FALSE, Null)
    /\ UNCHANGED << now, lastSet, lastGet, memoReq, memoSeen, memoGeoCalls, memoAiCalls >>
    /\ UNCHANGED << searchVars, sortVars >>

MemoInit == SearchIdle /\ SortIdle /\ CacheIdle /\ MemoIdle

MemoNext == MemoReceive \/ MemoLocationReturns \/ MemoGenerativeReturns \/ Tick \/ TimerFires

MemoSpec == MemoInit /\ [][MemoNext]_vars

(***************************************************************************)
(* Properties of POST /search.                                             *)
(***************************************************************************)

\* C1: a request whose location is missing, or whose needTypes is missing or an
\* empty list, is answered 400 and issues no geocoding, place-search or
\* generative call.
C1_InvalidRequestRejected ==
  (\/ request.location = Null
   \/ request.needTypes.kind = "missing"
   \/ (request.needTypes.kind = "array" /\ request.needTypes.items = <<>>))
  => /\ geoCalls = 0 /\ placeCalls = 0 /\ aiCalls = 0
     /\ pc \in {"start", "done"}
     /\ (pc = "done" => status = 400)

\* A request with a location and an empty needTypes list has been answered 400.
C1_EmptyNeedTypesAnswered ==
  /\ pc = "done"
  /\ status = 400
  /\ request.location = "Nashville, TN"
  /\ request.needTypes = NeedArray(<<>>)
  /\ geoCalls = 0

\* C2: every accepted request eventually receives a response, even when a
\* provider call never returns.
C2_AcceptedRequestAnswered == (pc = "geo1_wait") ~> (pc = "done")

\* C3: a request that passed validation is answered 200 whatever the geocoding
\* calls, the text searches and the generative call did; 400 is sent only for a
\* request with missing fields, and no other status is sent.
C3_ValidRequestAnswered2xx ==
  /\ status \in {0, 200, 400}
  /\ (status = 400 =>
        \/ request.location \in {Null, ""}
        \/ request.needTypes.kind = "missing"
        \/ needLength(request.needTypes) = 0)
  /\ ((pc = "done" /\ geoCalls > 0) => status = 200)

\* Both geocoding calls failed, a text search failed, the generative call threw,
\* and the request has been answered 200 with facilities.
C3_AllProvidersFailedAnswered ==
  /\ pc = "done"
  /\ status = 200
  /\ body.success
  /\ ~IsSome(routeCoords)
  /\ ~IsSome(userCoords)
  /\ nFailed > 0
  /\ aiOutcome.kind = "throw"

\* C4: a failing text search never aborts the batch: every query of the list is
\* issued, and the collector holds, in call order, exactly the places the
\* successful searches returned.
C4_FailedQueryKeepsBatch ==
  /\ allFacilities = returned
  /\ placeCalls = qi
  /\ ((pc \in {"ai_wait", "done"} /\ geoCalls > 0) => placeCalls = Len(queries))

\* The batch has finished with at least one failed search and at least one
\* search that returned places, all of which are in the collector.
C4_BatchFinishedAfterFailure ==
  /\ pc = "done"
  /\ nFailed > 0
  /\ nOk > 0
  /\ Len(allFacilities) > 0
  /\ placeCalls = Len(queries)

\* C5: for every combination of need types and every collected list, no place
\* whose name contains "veterinary" in any letter case is in the output of
\* filterFacilitiesByServiceType, in the ranked result or in the response.
C5_NoVeterinaryInOutput ==
  /\ \A i \in 1..Len(filtered) :
       ~includes(toLowerCase(filtered[i].displayName), "veterinary")
  /\ \A i \in 1..Len(googleResults) :
       ~includes(toLowerCase(googleResults[i].displayName), "veterinary")
  /\ \A i \in 1..Len(body.facilities) :
       ~includes(toLowerCase(body.facilities[i].name), "veterinary")

\* A veterinary hospital typed "hospital" was collected, and the response
\* carries facilities.
C5_VeterinaryCollected ==
  /\ pc = "done"
  /\ Len(body.facilities) > 0
  /\ \E i \in 1..Len(allFacilities) : allFacilities[i] = VetHospital

\* C6: when emergency is requested, every facility of the response whose name
\* contains eye, dental, skin or ent has medical_relevance Low, whatever the
\* generative call returned and when it failed.
C6_SpecialtyLowForEmergency ==
  (pc = "done" /\ needIncludes(request.needTypes, "emergency")) =>
    \A i \in 1..Len(body.facilities) :
      includesAny(toLowerCase(body.facilities[i].name), {"eye", "dental", "skin", "ent"})
        => body.facilities[i].medical_relevance = "Low"

\* The generative call rated "Nepal Eye Hospital" High for an emergency request
\* and the response rates it Low.
C6_EyeHospitalRatedHighByAI ==
  /\ pc = "done"
  /\ request.needTypes = NeedArray(<<"emergency">>)
  /\ IsSome(aiOutcome.facilities)
  /\ \E i \in 1..Len(body.facilities) :
       /\ body.facilities[i].name = "Nepal Eye Hospital"
       /\ Val(Val(aiOutcome.facilities)[i]).medical_relevance = "High"
       /\ body.facilities[i].medical_relevance = "Low"

\* C7: when the generative call throws, the response carries every ranked
\* facility, each with all six enrichment fields set to values of the
\* rule-based fallback.
C7_FallbackEnrichmentComplete ==
  (pc = "done" /\ aiOutcome.kind = "throw") =>
    /\ Len(body.facilities) = Len(googleResults)
    /\ \A i \in 1..Len(body.facilities) :
         LET f == body.facilities[i]
         IN  /\ f.name = googleResults[i].displayName
             /\ f.medical_relevance \in {"High", "Medium", "Low"}
             /\ f.language_support \in {"Confirmed", "Unknown"}
             /\ f.language_note \in { "English is the primary language spoken",
                                      "Language support not assessed" }
             /\ f.service_match \in {"Excellent", "Good", "Fair", "Poor"}
             /\ f.specialty_note # Null
             /\ f.specialty_note # ""
             /\ Len(f.likely_services) > 0

\* The generative call threw and the response carries two or more facilities.
C7_ThrowWithFacilities ==
  /\ pc = "done"
  /\ aiOutcome.kind = "throw"
  /\ Len(body.facilities) >= 2

\* C8: the ranked result holds no facility whose known distance exceeds the
\* radius (31 miles, 50 with support-groups; distances are in tenths), and it
\* holds every filtered facility whose distance is unknown.
C8_RadiusCutoff ==
  (pc \in {"ai_wait", "done"} /\ geoCalls > 0 /\ request.needTypes.kind = "array") =>
    LET R == IF arrIncludes(request.needTypes.items, "support-groups") THEN 500 ELSE 310
    IN  /\ \A i \in 1..Len(googleResults) :
             IsSome(googleResults[i].distance) => Val(googleResults[i].distance).miles <= R
        /\ \A i \in 1..Len(body.facilities) :
             IsSome(body.facilities[i].distance)
               => Val(body.facilities[i].distance).miles <= R
        /\ \A i \in 1..Len(filtered) :
             (~IsSome(userCoords) \/ ~IsSome(filtered[i].location)) =>
               \E j \in 1..Len(googleResults) :
                 /\ googleResults[j].displayName = filtered[i].displayName
                 /\ googleResults[j].formattedAddress = filtered[i].formattedAddress
                 /\ ~IsSome(googleResults[j].distance)

\* With user coordinates known, a hospital 70 miles away passed the filter and
\* was cut, and a clinic without coordinates was kept without a distance.
C8_FarCutUnknownKept ==
  /\ pc = "done"
  /\ IsSome(userCoords)
  /\ \E i \in 1..Len(filtered) : filtered[i] = FarHospital
  /\ \A j \in 1..Len(googleResults) : googleResults[j].displayName # "Far Hospital"
  /\ \E j \in 1..Len(googleResults) :
       /\ googleResults[j].displayName = "Speech Clinic"
       /\ ~IsSome(googleResults[j].distance)

\* C9 as stated: after deduplication no two entries have the same name and
\* address after case normalization.
C9_CaseNormalizedDedup ==
  (pc \in {"ai_wait", "done"} /\ geoCalls > 0) =>
    \A i, j \in 1..Len(unique) :
      i # j =>
        \/ toLowerCase(unique[i].displayName) # toLowerCase(unique[j].displayName)
        \/ toLowerCase(unique[i].formattedAddress) # toLowerCase(unique[j].formattedAddress)

\* Two searches returned the same place and deduplication kept one entry of it.
C9_DuplicateCollapsed ==
  /\ pc = "done"
  /\ Len(unique) > 0
  /\ Len(unique) < Len(allFacilities)
  /\ \E i, j \in 1..Len(allFacilities) : i # j /\ allFacilities[i] = allFacilities[j]

\* C10: for a rehabilitation-only request with user coordinates and the
\* collected places rehab hospital, dental hospital, veterinary clinic, the
\* response lists the rehab hospital, then the dental hospital, each with a
\* distance, and no veterinary clinic.
C10_RehabBeforeDental ==
  ( /\ pc = "done"
    /\ request.needTypes = NeedArray(<<"rehabilitation">>)
    /\ IsSome(userCoords)
    /\ allFacilities = << RehabHospital, DentalHospital, VetClinic >> ) =>
    /\ Len(body.facilities) = 2
    /\ body.facilities[1].name = RehabHospital.displayName
    /\ body.facilities[2].name = DentalHospital.displayName
    /\ IsSome(body.facilities[1].distance)
    /\ IsSome(body.facilities[2].distance)

\* C11 as stated: no facility of the response combines a value of the
\* generative response (its shared patterns included) with a value the
\* fallback rules computed.
C11_NoMergeWithPatterns ==
  (pc = "done" /\ body.success) =>
    \A i \in 1..Len(body.facilities) :
      LET f == body.facilities[i]
          fromPatterns ==
            /\ IsSome(aiOutcome.patterns)
            /\ \/ f.language_support = Val(aiOutcome.patterns).hospital_language_support
               \/ f.language_note = Val(aiOutcome.patterns).general_language_note
          fromRules ==
            f.specialty_note \in
              { "Medical facility", "Specialized for stroke/trauma care",
                "Hospital with emergency department",
                "Urgent care facility, not specialized for stroke emergencies",
                "Specialized speech therapy services",
                "Specialized physical therapy services",
                "Specialized occupational therapy services",
                "Specialized rehabilitation services",
                "Hospital with rehabilitation services" }
      IN  ~(fromPatterns /\ fromRules)

\* The generative response carried shared patterns and no per-facility entry,
\* and a facility of the response has the patterns' language support next to a
\* specialty note of the rules.
C11_PatternsOnRuleInsight ==
  /\ pc = "done"
  /\ IsSome(aiOutcome.patterns)
  /\ ~IsSome(aiOutcome.facilities)
  /\ \E i \in 1..Len(body.facilities) :
       /\ body.facilities[i].language_support = "Likely"
       /\ body.facilities[i].specialty_note = "Hospital with rehabilitation services"

\* C12: the response holds, at the position of every ranked facility, a record
\* whose name, address, phone, website, rating, distance and directions are
\* those of the ranked facility (a missing field reads as its default),
\* whatever the generative service returned.
C12_FacilityFieldsPreserved ==
  (pc = "done" /\ body.success) =>
    /\ Len(body.facilities) = Len(googleResults)
    /\ \A i \in 1..Len(body.facilities) :
         LET f == body.facilities[i]
             g == googleResults[i]
         IN  /\ f.name = orElse(g.displayName, "Unknown")
             /\ f.address = orElse(g.formattedAddress, "Address not available")
             /\ f.phone = orElse(g.internationalPhoneNumber, "Not available")
             /\ f.website = orElse(g.websiteUri, "Not available")
             /\ f.rating = orElse(g.rating, "Not available")
             /\ f.distance = g.distance
             /\ f.directions = g.directions

\* C13: when no text search of a valid request returned a place, the response
\* is 200 with success false, no facilities and a suggestion, and the
\* generative service was not called.
C13_NoPlacesAnsweredWithSuggestion ==
  (pc = "done" /\ geoCalls > 0 /\ returned = <<>>) =>
    /\ status = 200
    /\ ~body.success
    /\ body.facilities = <<>>
    /\ body.suggestion # Null
    /\ aiCalls = 0

\* Every text search of an emergency request came back with an empty list and
\* the request has been answered.
C13_EveryQueryEmpty ==
  /\ pc = "done"
  /\ request.needTypes = NeedArray(<<"emergency">>)
  /\ placeCalls = Len(queries)
  /\ placeCalls > 0
  /\ nFailed = 0
  /\ nOk = 0
  /\ body.suggestion = "Try searching for a larger city or different location"

\* C14: a request whose location is empty after trimming whitespace is
\* answered 400 and issues no provider call.
C14_BlankLocationRejected ==
  (/\ request.location # Null
   /\ \A i \in 1..Len(request.location) : CharAt(request.location, i) = " ")
  => /\ geoCalls = 0 /\ placeCalls = 0 /\ aiCalls = 0
     /\ (pc = "done" => status = 400)

\* C15: a request that passed validation issues exactly one geocoding call,
\* and the coordinates the language was detected from are the coordinates the
\* distances are computed from.
C15_OneGeocodingCall ==
  geoCalls <= 1 /\ (pc \in {"ai_wait", "done"} => routeCoords = userCoords)

\* C16: sorting by distance the facilities of a response that was sorted by
\* distance gives the same order, also when some facilities have no distance.
C16_DistanceSortIdempotent ==
  (sortPrev.sorted_by = "distance" /\ sortRes.status = 200) =>
    sortRes.facilities = sortPrev.output

\* A list with a facility without distance was put in another order by the
\* sort by distance, and the sorted list has been sorted again.
C16_ResortedAfterReordering ==
  /\ sortPrev.sorted_by = "distance"
  /\ sortRes.status = 200
  /\ sortPrev.output # sortPrev.input
  /\ \E i \in 1..Len(sortPrev.input) : ~IsSome(sortPrev.input[i].distance)


(***************************************************************************)
(* Properties of SimpleCache.                                              *)
(***************************************************************************)

\* C18: whatever set, get, delete, clear and timer expiries came before, a get
\* never returns a value when more than the ttl of the most recent set of its
\* key has passed since that set.
C18_GetNeverStale ==
  IsSome(lastGet.value) =>
    lastGet.at <= lastSet[lastGet.key].at + lastSet[lastGet.key].ttl

(***************************************************************************)
(* Properties of the memo route.                                           *)
(***************************************************************************)
\* An earlier request with this location, needType and urgency was answered
\* and its memo was in searchCache when the handler looked up.
memoOfSameTriple ==
  \E d \in MemoData :
    /\ cacheKey(d) \in memoSeen
    /\ d.location = searchData(memoReq).location
    /\ d.needType = searchData(memoReq).needType
    /\ d.urgency = searchData(memoReq).urgency

\* C17 as stated: a request whose location, needType and urgency equal those of
\* an earlier completed request with an unexpired memo is answered from the
\* memo: marked cached, with no geocoding call and no generative call.
C17_SameTripleAnsweredFromMemo ==
  (memoPc = "done" /\ memoRes.status # 400 /\ memoOfSameTriple) =>
    /\ memoRes.cached
    /\ memoGeoCalls = 0
    /\ memoAiCalls = 0

\* What holds of the memo: an answer marked cached is given only when
\* searchCache held the key made of all six fields of the searchData when the
\* handler looked up, and with no geocoding or generative call; an answer not
\* marked cached has made one geocoding and one generative call.
memoAnswerAccounted ==
  (memoPc = "done" /\ memoRes.status # 400) =>
    IF memoRes.cached
    THEN /\ memoRes.status = 200
         /\ cacheKey(searchData(memoReq)) \in memoSeen
         /\ memoGeoCalls = 0
         /\ memoAiCalls = 0
    ELSE /\ memoGeoCalls = 1
         /\ memoAiCalls = 1

\* The handler found a value that is not truthy under the key of the request
\* and went on to the geocoding call.
memoHeldButNotUsed ==
  /\ memoPc = "geo_wait"
  /\ cacheKey(searchData(memoReq)) \in memoSeen
  /\ cacheKey(searchData(memoReq)) \in DOMAIN cache
  /\ ~truthy(cache[cacheKey(searchData(memoReq))])

\* A request was answered from a memo stored earlier, after time has passed.
C17_AnsweredFromMemo ==
  /\ memoPc = "done"
  /\ memoRes.status = 200
  /\ memoRes.cached
  /\ cacheKey(searchData(memoReq)) \in memoSeen
  /\ now > 0

(***************************************************************************)
(* Properties of the insights.                                             *)
(***************************************************************************)
\* The name holds w as a word of its own, whatever the case.
hasWord(name, w) == occursIn(" " \o lowerOf(name) \o " ", " " \o w \o " ")

\* A single-specialty eye, dental, skin or ENT facility.
isSingleSpecialty(name) == \E w \in {"eye", "dental", "skin", "ent"} : hasWord(name, w)

\* The generative service gave no entry for the facility at index i.
notCoveredByAI(i) == ~IsSome(directAI(aiAnalysisOf(aiOutcome), i))

\* The facility matches a requested need type, in the cases C19 names.
matchesNeed(facility, needTypes) ==
  \/ /\ needIncludes(needTypes, "speech-therapy")
     /\ occursIn(lowerOf(facility.displayName), "speech")
  \/ /\ needIncludes(needTypes, "emergency")
     /\ \/ occursIn(lowerOf(facility.displayName), "stroke")
        \/ occursIn(lowerOf(facility.displayName), "trauma")
        \/ getFacilityType(facility) = "hospital"

\* C19 as stated: a facility that the generative service did not cover, that
\* is no single-specialty eye, dental, skin or ENT facility and that matches a
\* requested need type is rated High.
C19_MatchingFacilityRatedHigh ==
  pc = "done" =>
    \A i \in 1..Len(body.facilities) :
      ( /\ notCoveredByAI(i)
        /\ ~isSingleSpecialty(googleResults[i].displayName)
        /\ matchesNeed(googleResults[i], request.needTypes) )
      => body.facilities[i].medical_relevance = "High"

\* The name holds one of the substrings, whatever the case.
nameHolds(facility, subs) == \E sub \in subs : occursIn(lowerOf(facility.displayName), sub)

fallbackFacilities ==
  enhancedFacilities(googleResults, request.needTypes, language, detectedLocalLanguage,
                     [aiOutcome EXCEPT !.facilities = None])

\* C21: every facility at a rank position beyond maxFacilitiesForAI receives the
\* deterministic fallback, whatever the generative response holds.
C21_BeyondTopNFallback ==
  pc = "done" =>
    \A i \in 1..Len(body.facilities) :
      i > maxFacilitiesForAI => body.facilities[i] = fallbackFacilities[i]

Relevances == {"High", "Medium", "Low"}

\* An entry of the expected shape: an assessment with each insight key.
wellFormedEntry(entry) ==
  /\ IsSome(entry)
  /\ Val(entry).medical_relevance \in Relevances
  /\ Val(entry).language_support # Null
  /\ Val(entry).service_match # Null

\* The generative call returned, and what it returned is not JSON or has not
\* a facilities list with a well-formed entry for each submitted facility.
malformedResponse ==
  \/ aiOutcome.kind = "nonjson"
  \/ /\ aiOutcome.kind = "json"
     /\ \/ ~IsSome(aiOutcome.facilities)
        \/ Len(Val(aiOutcome.facilities)) # Len(facilitiesForAI(googleResults))
        \/ \E i \in 1..Len(Val(aiOutcome.facilities)) :
             ~wellFormedEntry(Val(aiOutcome.facilities)[i])

\* The response the route would have sent had the generative call failed.
failureFacilities ==
  enhancedFacilities(googleResults, request.needTypes, language, detectedLocalLanguage,
                     [kind |-> "throw", facilities |-> None, patterns |-> None])

\* C22: after a malformed generative response no facility takes a field from
\* it: the response is the one of a failed call, and every facility has a
\* medical_relevance of High, Medium or Low.
C22_MalformedIsFullFailure ==
  (pc = "done" /\ malformedResponse) =>
    /\ body.facilities = failureFacilities
    /\ \A i \in 1..Len(body.facilities) :
         body.facilities[i].medical_relevance \in Relevances

(***************************************************************************)
(* Properties of the ranking.                                              *)
(***************************************************************************)
\* The priority score as C23 words it.
statedScore(facility) ==
  LET name == lowerOf(facility.displayName)
  IN  (IF occursIn(name, "stroke") THEN 10 ELSE 0)
      + (IF /\ (occursIn(name, "hospital") \/ occursIn(name, "medical center"))
            /\ ~isSingleSpecialty(facility.displayName)
         THEN 8 ELSE 0)
      + (IF occursIn(name, "trauma") THEN 7 ELSE 0)
      + (IF occursIn(name, "emergency") /\ ~occursIn(name, "urgent") THEN 6 ELSE 0)
      + (IF occursIn(name, "urgent") THEN 3 ELSE 0)

\* getRealFacilities has returned its ranked list.
ranked == pc \in {"ai_wait", "done"} /\ status # 400

\* C23: when emergency is requested, the comparator's score of each ranked
\* facility is the stated sum, and no facility with a lower stated score
\* precedes one with a higher.
C23_ScoreIsStatedSum ==
  (ranked /\ needIncludes(request.needTypes, "emergency")) =>
    /\ \A i \in 1..Len(googleResults) :
         emergencyScore(lowerName(googleResults[i])) = statedScore(googleResults[i])
    /\ \A i, j \in 1..Len(googleResults) :
         i < j => statedScore(googleResults[i]) >= statedScore(googleResults[j])

\* The score the comparator ranks a facility by: 0 unless emergency is requested.
rankScore(facility) ==
  IF needIncludes(request.needTypes, "emergency")
  THEN emergencyScore(lowerName(facility))
  ELSE 0

\* The position of a ranked facility in the list that was handed to the sort.
inputPosition(facility) ==
  CHOOSE k \in 1..Len(filtered) :
    /\ filtered[k].displayName = facility.displayName
    /\ filtered[k].formattedAddress = facility.formattedAddress

\* C24: among ranked facilities of equal score, known distances ascend, a
\* facility lacking distance follows every one that has it, and complete ties
\* keep their input order.
C24_TiesByDistanceThenInput ==
  ranked =>
    \A i, j \in 1..Len(googleResults) :
      (i < j /\ rankScore(googleResults[i]) = rankScore(googleResults[j])) =>
        LET a == googleResults[i]
            b == googleResults[j]
        IN  /\ (IsSome(a.distance) /\ IsSome(b.distance)) =>
                 Val(a.distance).miles <= Val(b.distance).miles
            /\ ~(~IsSome(a.distance) /\ IsSome(b.distance))
            /\ ( \/ (~IsSome(a.distance) /\ ~IsSome(b.distance))
                 \/ /\ IsSome(a.distance) /\ IsSome(b.distance)
                    /\ Val(a.distance).miles = Val(b.distance).miles )
               => inputPosition(a) < inputPosition(b)

(***************************************************************************)
(* Properties of the relevance filter.                                     *)
(***************************************************************************)
\* The name holds "hospital" or "medical center", or the tags hold "hospital".
statedMajorMedical(place) ==
  \/ occursIn(lowerOf(place.displayName), "hospital")
  \/ occursIn(lowerOf(place.displayName), "medical center")
  \/ occursIn(lowerOf(join(place.types, " ")), "hospital")

\* The name or the tags indicate veterinary or animal care: the name holds
\* one of the words for it as a word of its own, or a tag is a veterinary one.
statedVeterinary(place) ==
  \/ \E w \in {"pet", "pets", "veterinary", "veterinarian", "animal", "animals",
               "vet", "vets"} :
       hasWord(place.displayName, w)
  \/ occursIn(lowerOf(join(place.types, " ")), "veterinary")

\* The filter has run on the deduplicated list.
filterDone == pc \in {"ai_wait", "done"} /\ request.needTypes.kind = "array"

\* C25: for every non-empty list of need types the filter keeps every major
\* medical facility whose name and tags do not indicate veterinary or animal
\* care; a general hospital is never dropped.
C25_MajorMedicalKept ==
  filterDone =>
    \A k \in 1..Len(unique) :
      (statedMajorMedical(unique[k]) /\ ~statedVeterinary(unique[k]))
        => \E m \in 1..Len(filtered) : filtered[m] = unique[k]

\* Speech therapy alone was requested and a hospital whose name holds no
\* speech keyword went through the filter and was kept.
C25_HospitalKeptForSpeech ==
  /\ filterDone
  /\ request.needTypes = NeedArray(<<"speech-therapy">>)
  /\ \E k \in 1..Len(unique) : unique[k] = DentalHospital
  /\ \E m \in 1..Len(filtered) : filtered[m] = DentalHospital

(***************************************************************************)
(* Properties of the query loop.                                           *)
(***************************************************************************)
\* C26: a query whose call failed is attempted once more before it is skipped,
\* so once a call has failed more calls have been issued than queries were
\* started; and no query is attempted more than twice.
C26_FailedQueryRetriedOnce ==
  /\ nFailed > 0 => placeCalls > qi
  /\ placeCalls <= 2 * qi

\* The text searches of the request that have been issued and not answered.
placesInFlight == IF pc = "places_wait" THEN 1 ELSE 0

\* C27: at most 5 text searches are in flight at any time, and a text search
\* after the first is issued only when the pacing delay has elapsed, also
\* after a call that failed.
C27_CallsPaced ==
  /\ [](placesInFlight <= 5)
  /\ [][(placeCalls' > placeCalls /\ placeCalls > 0) => pc = "pacing"]_vars

(***************************************************************************)
(* Properties of the query list.                                           *)
(***************************************************************************)
\* The need types that were requested, as a set.
requestedSet == { request.needTypes.items[i] : i \in 1..Len(request.needTypes.items) }

\* The number of queries a need type contributes, and the first of them.
statedCount(t) == IF t \in {"emergency", "rehabilitation", "support-groups"} THEN 4 ELSE 2

statedFirst(t) ==
  CASE t = "emergency" -> "stroke center near "
    [] t = "rehabilitation" -> "stroke rehabilitation center near "
    [] t = "speech-therapy" -> "speech therapy clinic near "
    [] t = "physical-therapy" -> "physical therapy clinic near "
    [] t = "occupational-therapy" -> "occupational therapy near "
    [] t = "support-groups" -> "stroke support group near "

RECURSIVE sumCounts(_)
sumCounts(S) ==
  IF S = {} THEN 0 ELSE LET t == CHOOSE x \in S : TRUE IN statedCount(t) + sumCounts(S \ {t})

\* The index of the query q in the list, 0 when it is not there.
queryIndex(q) ==
  IF \E i \in 1..Len(queries) : queries[i] = q
  THEN CHOOSE i \in 1..Len(queries) : queries[i] = q
  ELSE 0

\* C28: the query list depends on the set of requested need types and the
\* location only; each requested need type contributes its 2 to 4 queries, in
\* the fixed order of the need types; the last two queries are "hospital near
\* X" and "medical center near X".
C28_QueryListOfNeedSet ==
  pc = "places_wait" =>
    /\ queries = searchQueries(request.location, NeedArrayOf(requestedSet))
    /\ Len(queries) = sumCounts(requestedSet) + 2
    /\ \A t \in requestedSet : statedCount(t) \in 2..4
    /\ \A i, j \in 1..6 :
         (i < j /\ NeedTypeNames[i] \in requestedSet /\ NeedTypeNames[j] \in requestedSet)
           => /\ queryIndex(statedFirst(NeedTypeNames[i]) \o request.location) > 0
              /\ queryIndex(statedFirst(NeedTypeNames[i]) \o request.location)
                   + statedCount(NeedTypeNames[i])
                   <= queryIndex(statedFirst(NeedTypeNames[j]) \o request.location)
    /\ queries[Len(queries) - 1] = "hospital near " \o request.location
    /\ queries[Len(queries)] = "medical center near " \o request.location

\* The need types came out of order and one of them twice, and the query list
\* was built.
C28_UnorderedRepeatedNeeds ==
  /\ pc = "places_wait"
  /\ request.needTypes.items = <<"support-groups", "emergency", "emergency">>
  /\ Len(queries) = 10

(***************************************************************************)
(* Properties of deduplication by name and address.                        *)
(***************************************************************************)
\* The first facility of every (name, address) pair, in the order collected.
RECURSIVE firstSeenFrom(_, _, _)
firstSeenFrom(all, i, seenPairs) ==
  IF i > Len(all) THEN <<>>
  ELSE IF << all[i].displayName, all[i].formattedAddress >> \in seenPairs
       THEN firstSeenFrom(all, i + 1, seenPairs)
       ELSE <<all[i]>> \o firstSeenFrom(all, i + 1,
              seenPairs \cup { << all[i].displayName, all[i].formattedAddress >> })

\* C29: deduplication never merges two candidates whose (name, address) pairs
\* differ: every distinct pair collected has exactly one entry in the
\* deduplicated list, and entries are in first-seen order.
C29_DistinctPairsKept ==
  (pc \in {"ai_wait", "done"} /\ aiCalls > 0) =>
    unique = firstSeenFrom(allFacilities, 1, {})

(***************************************************************************)
(* Properties of the timers of SimpleCache.                                *)
(***************************************************************************)
\* The timeouts pending for a key.
pendingFor(key) == { t \in pending : t.key = key }

\* C30: after any interleaving of set, delete, clear and timer expiries, the
\* keys with a pending timer are the keys in the cache, each key has exactly
\* one pending timer, and that timer is the one of the latest set of the key:
\* the timer of an older set is cancelled and never evicts a newer value.
C30_OneTimerPerKey ==
  /\ { t.key : t \in pending } = DOMAIN cache
  /\ DOMAIN timers = DOMAIN cache
  /\ \A key \in DOMAIN cache :
       /\ Cardinality(pendingFor(key)) = 1
       /\ key \in DOMAIN lastSet
       /\ pendingFor(key) = { Timeout(key, lastSet[key].at + lastSet[key].ttl) }
       /\ cache[key] = lastSet[key].value

\* A key was set again while its earlier timer was pending; time has passed
\* since, the newer value is still stored and one timer is pending for it.
C30_NewerValueOutlivesOldTimer ==
  \E key \in DOMAIN cache :
    /\ key \in DOMAIN lastSet
    /\ lastSet[key].replaced
    /\ lastSet[key].at > 0
    /\ now > lastSet[key].at
    /\ cache[key] = lastSet[key].value
    /\ Cardinality(pendingFor(key)) = 1

====
